---- MODULE Spec2Model ----
(***************************************************************************)
(* Model of the tinyusbmidi footswitch firmware (variable N-switch,        *)
(* up-to-10-messages protocol): the SysEx capture state machine of         *)
(* tud_midi_rx_cb, the command dispatch of process_sysex_data, the         *)
(* in-memory device_config_t and the image kept in flash.                  *)
(*                                                                         *)
(* Bytes are the integers 0..255.  C arrays are functions from 0-based     *)
(* indices; a captured frame is a sequence, so data[k] of the source is    *)
(* D(data, k) here.                                                        *)
(***************************************************************************)
EXTENDS Integers, Sequences, FiniteSets, TLC

\* ---------------------------------------------------------------- constants
MAX_SWITCHES == 16
MAX_MESSAGES_PER_EVENT == 10
num_switches == 2
SYSEX_BUFFER_SIZE == 64
SYSEX_BASIC_MIN_LENGTH == 6
SYSEX_START_BYTE == 240
SYSEX_END_BYTE == 247
SYSEX_MANUFACTURER_ID_1 == 0
SYSEX_MANUFACTURER_ID_2 == 125
SYSEX_DEVICE_ID == 1
SYSEX_CMD_GET_INFO == 1
SYSEX_CMD_GET_MESSAGE == 2
SYSEX_CMD_SET_MESSAGE == 3
MIDI_MSG_NONE == 0
MIDI_MSG_CC == 1
MIDI_MSG_PC == 2
MIDI_MSG_NOTE == 3
DEBOUNCE_TIME_MS == 20
MIDI_CABLE_NUM == 0
\* 0x4D494449 as the four bytes the little-endian core stores
CONFIG_MAGIC == <<73, 68, 73, 77>>

\* ------------------------------------------------------------------- bounds
\* frames the host sends in one behaviour
MaxFrames == 2
\* a transport delivery carries up to MaxFragment bytes or, when no capture
\* is in progress, all bytes in flight
MaxFragment == 2
\* the host sends a frame when at most MaxBacklog earlier bytes are in flight
MaxBacklog == 2
\* filler bytes of the over-long frames beyond the capture buffer size
MaxOverrun == 1
\* commands, power cycles and decayed bytes in one storage behaviour
MaxStoreSteps == 3
\* clock advances in one switch behaviour
MaxTicks == 3
\* requests of the configuration page in one behaviour
MaxRequests == 3
\* calls of connectToDevice with a device id whose ports are not found
MaxLookupFailures == 1
\* frames the host sends to the 4-slot firmware in one behaviour
MaxLegacyFrames == 3
\* calls of save_config_to_flash followed statement by statement
MaxPersistCalls == 2
\* interrupts taken, and main-loop steps, next to those calls
MaxObservers == 2
\* pin level changes in one switch behaviour
MaxRawChanges == 2
\* the times since a change are followed up to SinceCap ms
SinceCap == 40

VARIABLES
    current_config,  \* static device_config_t current_config
    flash,           \* the image at FLASH_TARGET_OFFSET, or Erased
    sysex_buffer,    \* static sysex_buffer[0 .. sysex_pos-1] of tud_midi_rx_cb
    usb_rx,          \* bytes sent by the host and not yet read by the device
    sent,            \* number of frames the host has sent
    consumed,        \* history: every byte read by tud_midi_rx_cb so far
    dispatched,      \* history: <<frame, responses>> of every process_sysex_data call
    pre,             \* history: configuration and image before the latest dispatch
    persisted,       \* history: the latest save_config_to_flash call: the structure
                     \* it stamped, the fault it met, whether the image decayed since
    power,           \* history: the latest run of main() up to its loop, and what
                     \* the sector held when it started
    switch_states,   \* static switch_state_t switch_states[]
    now,             \* the value board_millis() returns
    gpio,            \* the level of each switch pin
    mounted,         \* what tud_midi_mounted() returns
    midi_out,        \* history: every packet send_midi_messages has written
    accepted,        \* history: every send_midi_messages call of check_switches
    watch,           \* history: per switch, the ms since its latest accepted
                     \* transition and since its latest pin change, the accepted
                     \* transitions since then (accepts) and the length of
                     \* accepted then (mark), whether that pin change came within
                     \* the debounce time of the one before (close) and the
                     \* transitions accepted between the two (before)
    ticks,           \* number of clock advances so far
    raw_changes,     \* number of pin level changes so far
    client,          \* the MidiManager of the configuration page: isConnected,
                     \* pendingResponses, the promises createResponsePromise has
                     \* made (each with its state, whether its timer is armed,
                     \* and as history the response that settled it and whether
                     \* disconnect() was called while it was pending), the
                     \* number of device responses that have reached the page,
                     \* currentInput and currentOutput, the calls of
                     \* connectToDevice that reached their await (attempts:
                     \* the promise awaited, what the call returned, whether
                     \* it dispatched 'connected') and the number of calls
                     \* that found no port
    legacy,          \* the fixed 4-slot firmware: its current_config, the image
                     \* in flash, the capture buffer, the bytes in flight, the
                     \* number of frames sent and, as history, every
                     \* process_sysex_data call with the configuration it left
    persist          \* save_config_to_flash statement by statement: the statement
                     \* it is at (pc), whether interrupts are enabled, the value
                     \* save_and_disable_interrupts returned, what the sector
                     \* holds, the fault of this programming, the calls so far
                     \* and, as history, the values returned and the statements
                     \* at which an interrupt handler or a main-loop step ran

sysex_vars == <<sysex_buffer, usb_rx, sent, consumed>>
store_vars == <<current_config, flash, dispatched, pre, persisted, power>>
switch_vars ==
    <<switch_states, now, gpio, mounted, midi_out, accepted, watch, ticks, raw_changes>>
vars == <<sysex_vars, store_vars, switch_vars, client, legacy, persist>>

\* static uint16_t sysex_pos: the number of captured bytes
sysex_pos == Len(sysex_buffer)

D(data, k) == data[k + 1]

Min(a, b) == IF a < b THEN a ELSE b

\* ------------------------------------------------------------------- clock
\* a uint32_t as two 16-bit halves
Half == 65536

U32(hi, lo) == [hi |-> hi, lo |-> lo]

\* no change of the kind has happened yet
Never == -1

\* a + d and a - b in uint32_t arithmetic
add32(a, d) ==
    LET lo == a.lo + d
    IN  U32((a.hi + lo \div Half) % Half, lo % Half)

sub32(a, b) ==
    LET lo == a.lo - b.lo
        borrow == IF lo < 0 THEN 1 ELSE 0
    IN  U32((a.hi - b.hi - borrow) % Half, lo % Half)

\* is_debounce_elapsed with the interval one millisecond short
is_debounce_elapsed_early(last_time, current_time) ==
    LET elapsed == sub32(current_time, last_time)
    IN  elapsed.hi > 0 \/ elapsed.lo >= DEBOUNCE_TIME_MS - 1

is_debounce_elapsed(last_time, current_time) ==
    LET elapsed == sub32(current_time, last_time)
    IN  elapsed.hi > 0 \/ elapsed.lo >= DEBOUNCE_TIME_MS

\* a | b on bytes
RECURSIVE BitOr(_, _)
BitOr(a, b) ==
    IF a = 0 THEN b
    ELSE IF b = 0 THEN a
    ELSE 2 * BitOr(a \div 2, b \div 2) + (IF a % 2 = 1 \/ b % 2 = 1 THEN 1 ELSE 0)

\* ------------------------------------------------------------ configuration
ZeroMessage == [msg_type |-> 0, channel |-> 0, param1 |-> 0, param2 |-> 0]

\* an event_config_t after memset(.., 0, ..)
ZeroEvent ==
    [message_count |-> 0,
     messages |-> [i \in 0 .. MAX_MESSAGES_PER_EVENT - 1 |-> ZeroMessage]]

\* The events the firmware can index: events[switch * 2 + event_type] with
\* switch < num_switches.  The entries of events[MAX_SWITCHES * 2] above them
\* are zeroed by init_default_config and never written again, so the model
\* leaves them out.
NumEvents == num_switches * 2

\* a 32-bit checksum value: the digest of the bytes it was computed over, and
\* per byte of the value the bits in which the stored value differs from it
Checksum32(digest, flip) == [digest |-> digest, flip |-> flip]

\* the sector after flash_range_erase: every byte reads 0xFF
Erased ==
    [magic |-> <<255, 255, 255, 255>>,
     num_switches |-> 255,
     events |->
        [e \in 0 .. NumEvents - 1 |->
            [message_count |-> 255,
             messages |->
                [i \in 0 .. MAX_MESSAGES_PER_EVENT - 1 |->
                    [msg_type |-> 255, channel |-> 255, param1 |-> 255, param2 |-> 255]]]],
     checksum |-> Checksum32(<<>>, <<255, 255, 255, 255>>)]

validate_midi_config(config) ==
    /\ config.channel <= 15
    /\ config.param1 <= 127
    /\ config.param2 <= 127
    /\ config.msg_type <= MIDI_MSG_NOTE

\* the messages of the default configuration: CC number = switch index on channel 0
DefaultMessage(i, value) ==
    [msg_type |-> MIDI_MSG_CC, channel |-> 0, param1 |-> i % 128, param2 |-> value]

init_default_config ==
    [magic |-> CONFIG_MAGIC,
     num_switches |-> num_switches,
     events |->
        [e \in 0 .. NumEvents - 1 |->
            IF e \div 2 < num_switches /\ e \div 2 < MAX_SWITCHES
            THEN [ZeroEvent EXCEPT
                    !.message_count = 1,
                    !.messages[0] =
                        DefaultMessage(e \div 2, IF e % 2 = 0 THEN 127 ELSE 0)]
            ELSE ZeroEvent],
     checksum |-> Checksum32(<<>>, <<0, 0, 0, 0>>)]

\* The hash of every byte before the checksum field.  The model keeps it
\* symbolic: two structures have the same hash iff those fields are equal.
calculate_checksum(config) ==
    Checksum32(<<config.magic, config.num_switches, config.events>>, <<0, 0, 0, 0>>)

\* what one erase-and-program cycle can leave in the sector
Faults == {"none", "not_programmed", "bad_cell"}

\* the sector after flash_range_erase and flash_range_program of the structure:
\* the structure itself, or for a failing part the erased sector or the
\* structure with a byte that did not take its value
flash_range_program(structure, fault) ==
    CASE fault = "none" -> structure
      [] fault = "not_programmed" -> Erased
      [] fault = "bad_cell" -> [structure EXCEPT !.num_switches = 255]

\* save_config_to_flash that programs the structure with the checksum it has
save_config_to_flash_stale(cfg, fault) ==
    LET image == flash_range_program(cfg, fault)
    IN  [cfg |-> cfg,
         fl |-> image,
         ok |-> IF image.magic # CONFIG_MAGIC THEN FALSE
                ELSE IF image.checksum # calculate_checksum(image) THEN FALSE
                ELSE TRUE]

\* [cfg, fl, ok]: the checksum is recomputed, the sector erased and programmed
\* with the whole structure, and the image read back.
save_config_to_flash(cfg, fault) ==
    LET stamped == [cfg EXCEPT !.checksum = calculate_checksum(cfg)]
        image == flash_range_program(stamped, fault)
    IN  [cfg |-> stamped,
         fl |-> image,
         ok |-> IF image.magic # CONFIG_MAGIC THEN FALSE
                ELSE IF image.checksum # calculate_checksum(image) THEN FALSE
                ELSE TRUE]

\* load_config_from_flash without the copy into current_config
load_config_from_flash_no_copy(cfg, fl) ==
    IF fl.magic # CONFIG_MAGIC THEN [cfg |-> cfg, ok |-> FALSE]
    ELSE IF fl.checksum # calculate_checksum(fl) THEN [cfg |-> cfg, ok |-> FALSE]
    ELSE [cfg |-> cfg, ok |-> TRUE]

\* load_config_from_flash without the checksum comparison
load_config_from_flash_no_checksum(cfg, fl) ==
    IF fl.magic # CONFIG_MAGIC THEN [cfg |-> cfg, ok |-> FALSE]
    ELSE [cfg |-> fl, ok |-> TRUE]

\* load_config_from_flash that has copied the events of an image with the
\* right magic when the checksum comparison fails
load_config_from_flash_events_first(cfg, fl) ==
    IF fl.magic # CONFIG_MAGIC THEN [cfg |-> cfg, ok |-> FALSE]
    ELSE IF fl.checksum # calculate_checksum(fl)
    THEN [cfg |-> [cfg EXCEPT !.events = fl.events], ok |-> FALSE]
    ELSE [cfg |-> fl, ok |-> TRUE]

\* [cfg, ok]: the in-memory configuration is overwritten only by a valid image
load_config_from_flash(cfg, fl) ==
    IF fl.magic # CONFIG_MAGIC THEN [cfg |-> cfg, ok |-> FALSE]
    ELSE IF fl.checksum # calculate_checksum(fl) THEN [cfg |-> cfg, ok |-> FALSE]
    ELSE [cfg |-> fl, ok |-> TRUE]

\* main() up to the main loop: [cfg, fl, loaded] for the image found in flash
\* at power-up; the result of save_config_to_flash is not looked at
Boot(fl0, fault) ==
    LET loaded == load_config_from_flash(init_default_config, fl0)
        saved == save_config_to_flash(loaded.cfg, fault)
    IN  IF loaded.ok THEN [cfg |-> loaded.cfg, fl |-> fl0, loaded |-> TRUE]
        ELSE [cfg |-> saved.cfg, fl |-> saved.fl, loaded |-> FALSE]

\* ---------------------------------------------------------------- responses
SysexPreamble ==
    <<SYSEX_START_BYTE, SYSEX_MANUFACTURER_ID_1, SYSEX_MANUFACTURER_ID_2, SYSEX_DEVICE_ID>>

\* send_info_response with the version byte before the switch count
send_info_response_swapped ==
    << SysexPreamble \o <<SYSEX_CMD_GET_INFO, 1, num_switches, SYSEX_END_BYTE>> >>

send_info_response ==
    << SysexPreamble \o <<SYSEX_CMD_GET_INFO, num_switches, 1, SYSEX_END_BYTE>> >>

send_success_response ==
    << SysexPreamble \o <<SYSEX_CMD_SET_MESSAGE, 0, SYSEX_END_BYTE>> >>

send_error_response ==
    << SysexPreamble \o <<SYSEX_CMD_SET_MESSAGE, 1, SYSEX_END_BYTE>> >>

\* response_messages with a response buffer that holds eight messages
RECURSIVE response_messages_short(_, _, _)
response_messages_short(event, i, response) ==
    IF i < event.message_count /\ Len(response) < 40
    THEN LET msg == event.messages[i]
         IN  response_messages_short(event, i + 1,
                 response \o <<msg.msg_type, msg.channel, msg.param1, msg.param2>>)
    ELSE response

\* the loop of send_message_response: appends 4 bytes per message while pos < 60
RECURSIVE response_messages(_, _, _)
response_messages(event, i, response) ==
    IF i < event.message_count /\ Len(response) < 60
    THEN LET msg == event.messages[i]
         IN  response_messages(event, i + 1,
                 response \o <<msg.msg_type, msg.channel, msg.param1, msg.param2>>)
    ELSE response

\* send_message_response with the event type accepted up to 2
send_message_response_wide(cfg, switch_num, event_type) ==
    IF switch_num >= num_switches \/ event_type > 2 THEN <<>>
    ELSE LET event == cfg.events[switch_num * 2 + event_type]
             head == SysexPreamble \o
                     <<SYSEX_CMD_GET_MESSAGE, switch_num, event_type, event.message_count>>
         IN  << response_messages(event, 0, head) \o <<SYSEX_END_BYTE>> >>

\* the frames written by send_message_response (none when out of range)
send_message_response(cfg, switch_num, event_type) ==
    IF switch_num >= num_switches \/ event_type > 1 THEN <<>>
    ELSE LET event == cfg.events[switch_num * 2 + event_type]
             head == SysexPreamble \o
                     <<SYSEX_CMD_GET_MESSAGE, switch_num, event_type, event.message_count>>
         IN  << response_messages(event, 0, head) \o <<SYSEX_END_BYTE>> >>

\* ----------------------------------------------------------------- dispatch
\* set_header_rejected without the message_count bound
set_header_rejected_no_count(switch_num, event_type, message_count, length) ==
    \/ switch_num >= num_switches
    \/ event_type > 1
    \/ length < 8 + message_count * 4

\* the validation of the SetMessages header fields
set_header_rejected(switch_num, event_type, message_count, length) ==
    \/ switch_num >= num_switches
    \/ event_type > 1
    \/ message_count > MAX_MESSAGES_PER_EVENT
    \/ length < 8 + message_count * 4

\* store_messages with param1 and param2 taken from each other's byte
RECURSIVE store_messages_swapped(_, _, _, _, _)
store_messages_swapped(event, data, i, pos, message_count) ==
    IF i < message_count /\ pos + 3 < Len(data)
    THEN LET msg == [msg_type |-> D(data, pos),
                     channel |-> D(data, pos + 1) % 16,
                     param1 |-> D(data, pos + 3) % 128,
                     param2 |-> D(data, pos + 2) % 128]
             written == [event EXCEPT !.messages[i] = msg]
         IN  IF validate_midi_config(msg)
             THEN store_messages_swapped([written EXCEPT !.message_count = @ + 1],
                                         data, i + 1, pos + 4, message_count)
             ELSE [event |-> written, ok |-> FALSE]
    ELSE [event |-> event, ok |-> TRUE]

\* store_messages that counts a message before it validates it
RECURSIVE store_messages_counting_first(_, _, _, _, _)
store_messages_counting_first(event, data, i, pos, message_count) ==
    IF i < message_count /\ pos + 3 < Len(data)
    THEN LET msg == [msg_type |-> D(data, pos),
                     channel |-> D(data, pos + 1) % 16,
                     param1 |-> D(data, pos + 2) % 128,
                     param2 |-> D(data, pos + 3) % 128]
             written == IF i < MAX_MESSAGES_PER_EVENT
                        THEN [event EXCEPT !.messages[i] = msg, !.message_count = @ + 1]
                        ELSE event
         IN  IF validate_midi_config(msg)
             THEN store_messages_counting_first(written, data, i + 1, pos + 4,
                                                message_count)
             ELSE [event |-> written, ok |-> FALSE]
    ELSE [event |-> event, ok |-> TRUE]

\* the store loop of SetMessages: [event, ok]; it stops at the first message
\* that fails validate_midi_config, leaving what it has written so far
RECURSIVE store_messages(_, _, _, _, _)
store_messages(event, data, i, pos, message_count) ==
    IF i < message_count /\ pos + 3 < Len(data)
    THEN LET msg == [msg_type |-> D(data, pos),
                     channel |-> D(data, pos + 1) % 16,
                     param1 |-> D(data, pos + 2) % 128,
                     param2 |-> D(data, pos + 3) % 128]
             written == IF i < MAX_MESSAGES_PER_EVENT
                        THEN [event EXCEPT !.messages[i] = msg]
                        ELSE event
         IN  IF validate_midi_config(msg)
             THEN store_messages([written EXCEPT !.message_count = @ + 1],
                                 data, i + 1, pos + 4, message_count)
             ELSE [event |-> written, ok |-> FALSE]
    ELSE [event |-> event, ok |-> TRUE]

\* set_message that leaves a frame below 9 bytes unanswered
set_message_short_unanswered(cfg, fl, data, fault) ==
    LET length == Len(data) IN
    IF length >= 9
    THEN LET switch_num == D(data, 5)
             event_type == D(data, 6)
             message_count == D(data, 7)
             event_idx == switch_num * 2 + event_type
         IN  IF set_header_rejected(switch_num, event_type, message_count, length)
             THEN [cfg |-> cfg, fl |-> fl, resp |-> send_error_response]
             ELSE LET stored == store_messages(ZeroEvent, data, 0, 8, message_count)
                      changed == [cfg EXCEPT !.events[event_idx] = stored.event]
                      saved == save_config_to_flash(changed, fault)
                  IN  IF stored.ok
                      THEN [cfg |-> saved.cfg, fl |-> saved.fl,
                            resp |-> send_success_response]
                      ELSE [cfg |-> changed, fl |-> fl, resp |-> send_error_response]
    ELSE [cfg |-> cfg, fl |-> fl, resp |-> <<>>]

\* case SYSEX_CMD_SET_MESSAGE: [cfg, fl, resp]; the result of
\* save_config_to_flash is not looked at
set_message(cfg, fl, data, fault) ==
    LET length == Len(data) IN
    IF length >= 9
    THEN LET switch_num == D(data, 5)
             event_type == D(data, 6)
             message_count == D(data, 7)
             event_idx == switch_num * 2 + event_type
         IN  IF set_header_rejected(switch_num, event_type, message_count, length)
             THEN [cfg |-> cfg, fl |-> fl, resp |-> send_error_response]
             ELSE LET stored == store_messages(ZeroEvent, data, 0, 8, message_count)
                      changed == [cfg EXCEPT !.events[event_idx] = stored.event]
                      saved == save_config_to_flash(changed, fault)
                  IN  IF stored.ok
                      THEN [cfg |-> saved.cfg, fl |-> saved.fl,
                            resp |-> send_success_response]
                      ELSE [cfg |-> changed, fl |-> fl, resp |-> send_error_response]
    ELSE [cfg |-> cfg, fl |-> fl, resp |-> send_error_response]

\* the basic validation: length and the start and end markers
basic_validation_failed(data) ==
    \/ Len(data) < SYSEX_BASIC_MIN_LENGTH
    \/ D(data, 0) # SYSEX_START_BYTE
    \/ D(data, Len(data) - 1) # SYSEX_END_BYTE

\* identifier_mismatch without the device identifier
identifier_mismatch_no_device(data) ==
    \/ D(data, 1) # SYSEX_MANUFACTURER_ID_1
    \/ D(data, 2) # SYSEX_MANUFACTURER_ID_2

\* the manufacturer and device identifier check
identifier_mismatch(data) ==
    \/ D(data, 1) # SYSEX_MANUFACTURER_ID_1
    \/ D(data, 2) # SYSEX_MANUFACTURER_ID_2
    \/ D(data, 3) # SYSEX_DEVICE_ID

\* [cfg, fl, resp]: the configuration, the image and the frames written
process_sysex_data(cfg, fl, data, fault) ==
    LET length == Len(data)
        nothing == [cfg |-> cfg, fl |-> fl, resp |-> <<>>]
    IN  IF basic_validation_failed(data)
        THEN nothing
        ELSE IF identifier_mismatch(data)
        THEN nothing
        ELSE LET command == D(data, 4) IN
             IF command = SYSEX_CMD_GET_INFO
             THEN IF length = SYSEX_BASIC_MIN_LENGTH
                  THEN [nothing EXCEPT !.resp = send_info_response]
                  ELSE nothing
             ELSE IF command = SYSEX_CMD_GET_MESSAGE
             THEN IF length = 8
                  THEN [nothing EXCEPT
                          !.resp = send_message_response(cfg, D(data, 5), D(data, 6))]
                  ELSE nothing
             ELSE IF command = SYSEX_CMD_SET_MESSAGE
             THEN set_message(cfg, fl, data, fault)
             ELSE nothing

\* ------------------------------------------------------------------ capture
\* rx_byte that no longer leaves a capture buffer that has filled up: neither
\* marker resets sysex_pos once it has reached SYSEX_BUFFER_SIZE - 1
rx_byte_wedged(st, byte) ==
    IF Len(st.buf) >= SYSEX_BUFFER_SIZE - 1
    THEN st
    ELSE IF byte = SYSEX_START_BYTE
    THEN [st EXCEPT !.buf = <<byte>>]
    ELSE IF byte = SYSEX_END_BYTE
    THEN LET frame == Append(st.buf, byte)
             r == process_sysex_data(st.cfg, st.fl, frame, st.fault)
         IN  [st EXCEPT
                !.buf = <<>>, !.cfg = r.cfg, !.fl = r.fl,
                !.disp = Append(st.disp, [frame |-> frame, resp |-> r.resp]),
                !.pre = [cfg |-> st.cfg, fl |-> st.fl],
                !.persisted = IF r.resp = send_success_response
                              THEN [cfg |-> r.cfg, fault |-> st.fault, decayed |-> FALSE]
                              ELSE @]
    ELSE IF Len(st.buf) > 0
    THEN [st EXCEPT !.buf = Append(@, byte)]
    ELSE st

\* rx_byte that stores a data byte of a capture without looking at sysex_pos
rx_byte_unbounded(st, byte) ==
    IF byte = SYSEX_START_BYTE
    THEN [st EXCEPT !.buf = <<byte>>]
    ELSE IF byte = SYSEX_END_BYTE
    THEN IF Len(st.buf) < SYSEX_BUFFER_SIZE
         THEN LET frame == Append(st.buf, byte)
                  r == process_sysex_data(st.cfg, st.fl, frame, st.fault)
              IN  [st EXCEPT
                     !.buf = <<>>, !.cfg = r.cfg, !.fl = r.fl,
                     !.disp = Append(st.disp, [frame |-> frame, resp |-> r.resp]),
                     !.pre = [cfg |-> st.cfg, fl |-> st.fl],
                     !.persisted = IF r.resp = send_success_response
                                   THEN [cfg |-> r.cfg, fault |-> st.fault, decayed |-> FALSE]
                                   ELSE @]
         ELSE [st EXCEPT !.buf = <<>>]
    ELSE IF Len(st.buf) > 0
    THEN [st EXCEPT !.buf = Append(@, byte)]
    ELSE st

\* rx_byte that stores a data byte whether or not a capture is in progress
rx_byte_capturing_idle(st, byte) ==
    IF byte = SYSEX_START_BYTE
    THEN [st EXCEPT !.buf = <<byte>>]
    ELSE IF byte = SYSEX_END_BYTE
    THEN IF Len(st.buf) < SYSEX_BUFFER_SIZE
         THEN LET frame == Append(st.buf, byte)
                  r == process_sysex_data(st.cfg, st.fl, frame, st.fault)
              IN  [st EXCEPT
                     !.buf = <<>>, !.cfg = r.cfg, !.fl = r.fl,
                     !.disp = Append(st.disp, [frame |-> frame, resp |-> r.resp]),
                     !.pre = [cfg |-> st.cfg, fl |-> st.fl],
                     !.persisted = IF r.resp = send_success_response
                                   THEN [cfg |-> r.cfg, fault |-> st.fault, decayed |-> FALSE]
                                   ELSE @]
         ELSE [st EXCEPT !.buf = <<>>]
    ELSE IF Len(st.buf) < SYSEX_BUFFER_SIZE - 1
    THEN [st EXCEPT !.buf = Append(@, byte)]
    ELSE st

\* one iteration of the byte loop of tud_midi_rx_cb on the device state st
rx_byte(st, byte) ==
    IF byte = SYSEX_START_BYTE
    THEN [st EXCEPT !.buf = <<byte>>]
    ELSE IF byte = SYSEX_END_BYTE
    THEN IF Len(st.buf) < SYSEX_BUFFER_SIZE
         THEN LET frame == Append(st.buf, byte)
                  r == process_sysex_data(st.cfg, st.fl, frame, st.fault)
              IN  [st EXCEPT
                     !.buf = <<>>, !.cfg = r.cfg, !.fl = r.fl,
                     !.disp = Append(st.disp, [frame |-> frame, resp |-> r.resp]),
                     !.pre = [cfg |-> st.cfg, fl |-> st.fl],
                     !.persisted = IF r.resp = send_success_response
                                   THEN [cfg |-> r.cfg, fault |-> st.fault, decayed |-> FALSE]
                                   ELSE @]
         ELSE [st EXCEPT !.buf = <<>>]
    ELSE IF Len(st.buf) > 0 /\ Len(st.buf) < SYSEX_BUFFER_SIZE - 1
    THEN [st EXCEPT !.buf = Append(@, byte)]
    ELSE st

\* the byte loop over bytes[lo .. hi], in order.  The range is split in halves
\* and the guard on the first half makes TLC finish it before the second
\* starts, which keeps the evaluation shallow.
RECURSIVE rx_bytes(_, _, _, _)
rx_bytes(st, bytes, lo, hi) ==
    IF lo > hi THEN st
    ELSE IF lo = hi THEN rx_byte(st, bytes[lo])
    ELSE LET mid == (lo + hi) \div 2
             left == rx_bytes(st, bytes, lo, mid)
         IN  CASE Len(left.buf) >= 0 -> rx_bytes(left, bytes, mid + 1, hi)

\* capture_on_entry for a buffer position that is not static
capture_restarted(buf) == <<>>

\* the capture buffer on entry to tud_midi_rx_cb: sysex_buffer and sysex_pos
\* are static, so the callback resumes the capture the previous call left
capture_on_entry(buf) == buf

\* ----------------------------------------------------------------- emission
\* packet_of with the Note On status whatever the velocity
packet_of_note_on_always(msg) ==
    CASE msg.msg_type = MIDI_MSG_CC ->
            <<BitOr(MIDI_CABLE_NUM * 16, 11), BitOr(176, msg.channel), msg.param1, msg.param2>>
      [] msg.msg_type = MIDI_MSG_PC ->
            <<BitOr(MIDI_CABLE_NUM * 16, 12), BitOr(192, msg.channel), msg.param1, 0>>
      [] msg.msg_type = MIDI_MSG_NOTE ->
            <<BitOr(MIDI_CABLE_NUM * 16, 9), BitOr(144, msg.channel), msg.param1, msg.param2>>
      [] OTHER -> <<0, 0, 0, 0>>

\* packet_of with the channel left out of the status byte
packet_of_no_channel(msg) ==
    CASE msg.msg_type = MIDI_MSG_CC ->
            <<BitOr(MIDI_CABLE_NUM * 16, 11), 176, msg.param1, msg.param2>>
      [] msg.msg_type = MIDI_MSG_PC ->
            <<BitOr(MIDI_CABLE_NUM * 16, 12), 192, msg.param1, 0>>
      [] msg.msg_type = MIDI_MSG_NOTE ->
            IF msg.param2 > 0
            THEN <<BitOr(MIDI_CABLE_NUM * 16, 9), 144, msg.param1, msg.param2>>
            ELSE <<BitOr(MIDI_CABLE_NUM * 16, 8), 128, msg.param1, msg.param2>>
      [] OTHER -> <<0, 0, 0, 0>>

\* the 4 bytes send_midi_messages builds for a message that is not None; a
\* kind the switch statement does not name leaves the zeroed packet
packet_of(msg) ==
    CASE msg.msg_type = MIDI_MSG_CC ->
            <<BitOr(MIDI_CABLE_NUM * 16, 11), BitOr(176, msg.channel), msg.param1, msg.param2>>
      [] msg.msg_type = MIDI_MSG_PC ->
            <<BitOr(MIDI_CABLE_NUM * 16, 12), BitOr(192, msg.channel), msg.param1, 0>>
      [] msg.msg_type = MIDI_MSG_NOTE ->
            IF msg.param2 > 0
            THEN <<BitOr(MIDI_CABLE_NUM * 16, 9), BitOr(144, msg.channel), msg.param1, msg.param2>>
            ELSE <<BitOr(MIDI_CABLE_NUM * 16, 8), BitOr(128, msg.channel), msg.param1, msg.param2>>
      [] OTHER -> <<0, 0, 0, 0>>

\* write_messages that stops at the first None entry
RECURSIVE write_messages_until_none(_, _, _)
write_messages_until_none(event, i, out) ==
    IF i < event.message_count
    THEN LET msg == event.messages[i]
         IN  IF msg.msg_type = MIDI_MSG_NONE
             THEN out
             ELSE write_messages_until_none(event, i + 1, Append(out, packet_of(msg)))
    ELSE out

\* the loop of send_midi_messages: one tud_midi_stream_write per message that
\* is not None, in slot order
RECURSIVE write_messages(_, _, _)
write_messages(event, i, out) ==
    IF i < event.message_count
    THEN LET msg == event.messages[i]
         IN  IF msg.msg_type = MIDI_MSG_NONE
             THEN write_messages(event, i + 1, out)
             ELSE write_messages(event, i + 1, Append(out, packet_of(msg)))
    ELSE out

\* send_midi_messages without the look at tud_midi_mounted()
send_midi_messages_unmounted(event, is_mounted) == write_messages(event, 0, <<>>)

\* the packets send_midi_messages writes: none while the transport is not mounted
send_midi_messages(event, is_mounted) ==
    IF ~ is_mounted THEN <<>> ELSE write_messages(event, 0, <<>>)

\* ------------------------------------------------- fixed 4-slot firmware
SYSEX_CMD_SET_CONFIG == 1
SYSEX_CMD_GET_CONFIG == 2
SYSEX_CMD_CONFIG_RESPONSE == 3

legacy_message(msg_type, channel, param1, param2) ==
    [msg_type |-> msg_type, channel |-> channel, param1 |-> param1, param2 |-> param2]

\* init_default_config of the 4-slot firmware
legacy_init_default_config ==
    [magic |-> CONFIG_MAGIC,
     switch1_press |-> legacy_message(MIDI_MSG_CC, 0, 64, 127),
     switch1_release |-> legacy_message(MIDI_MSG_CC, 0, 64, 0),
     switch2_press |-> legacy_message(MIDI_MSG_PC, 0, 1, 0),
     switch2_release |-> legacy_message(MIDI_MSG_PC, 0, 0, 0),
     checksum |-> Checksum32(<<>>, <<0, 0, 0, 0>>)]

\* the sector of the 4-slot firmware after flash_range_erase
legacy_erased ==
    [magic |-> <<255, 255, 255, 255>>,
     switch1_press |-> legacy_message(255, 255, 255, 255),
     switch1_release |-> legacy_message(255, 255, 255, 255),
     switch2_press |-> legacy_message(255, 255, 255, 255),
     switch2_release |-> legacy_message(255, 255, 255, 255),
     checksum |-> Checksum32(<<>>, <<255, 255, 255, 255>>)]

\* the hash of the bytes before the checksum field, kept symbolic
legacy_calculate_checksum(config) ==
    Checksum32(<<config.magic, config.switch1_press, config.switch1_release,
                 config.switch2_press, config.switch2_release>>, <<0, 0, 0, 0>>)

\* [cfg, fl]: the checksum is recomputed and the sector programmed
legacy_save_config_to_flash(cfg) ==
    LET stamped == [cfg EXCEPT !.checksum = legacy_calculate_checksum(cfg)]
    IN  [cfg |-> stamped, fl |-> stamped]

legacy_load_config_from_flash(cfg, fl) ==
    IF fl.magic # CONFIG_MAGIC THEN [cfg |-> cfg, ok |-> FALSE]
    ELSE IF fl.checksum # legacy_calculate_checksum(fl) THEN [cfg |-> cfg, ok |-> FALSE]
    ELSE [cfg |-> fl, ok |-> TRUE]

\* main() of the 4-slot firmware up to its loop: [cfg, fl]
legacy_boot(fl0) ==
    LET loaded == legacy_load_config_from_flash(legacy_init_default_config, fl0)
        saved == legacy_save_config_to_flash(loaded.cfg)
    IN  IF loaded.ok THEN [cfg |-> loaded.cfg, fl |-> fl0]
        ELSE [cfg |-> saved.cfg, fl |-> saved.fl]

\* the frames send_config_response writes: none while not mounted
send_config_response(switch_num, event_type, config, is_mounted) ==
    IF ~ is_mounted THEN <<>>
    ELSE << SysexPreamble \o
            <<SYSEX_CMD_CONFIG_RESPONSE, switch_num, event_type, config.msg_type,
              config.channel, config.param1, config.param2, SYSEX_END_BYTE>> >>

\* send_all_config with the two press slots before the two release slots
send_all_config_by_event(cfg, is_mounted) ==
    send_config_response(0, 0, cfg.switch1_press, is_mounted)
    \o send_config_response(1, 0, cfg.switch2_press, is_mounted)
    \o send_config_response(0, 1, cfg.switch1_release, is_mounted)
    \o send_config_response(1, 1, cfg.switch2_release, is_mounted)

send_all_config(cfg, is_mounted) ==
    send_config_response(0, 0, cfg.switch1_press, is_mounted)
    \o send_config_response(0, 1, cfg.switch1_release, is_mounted)
    \o send_config_response(1, 0, cfg.switch2_press, is_mounted)
    \o send_config_response(1, 1, cfg.switch2_release, is_mounted)

\* the set config command: [cfg, fl, resp]
legacy_set_config(cfg, fl, data) ==
    LET length == Len(data)
        nothing == [cfg |-> cfg, fl |-> fl, resp |-> <<>>]
    IN  IF length < 11 THEN nothing
        ELSE LET switch_num == D(data, 5)
                 event_type == D(data, 6)
                 temp_config ==
                    legacy_message(D(data, 7), D(data, 8) % 16, D(data, 9) % 128,
                                   IF length > 10 THEN D(data, 10) % 128 ELSE 0)
             IN  IF switch_num > 1 \/ event_type > 1 THEN nothing
                 ELSE IF ~ validate_midi_config(temp_config) THEN nothing
                 ELSE LET changed ==
                            CASE switch_num = 0 /\ event_type = 0 ->
                                    [cfg EXCEPT !.switch1_press = temp_config]
                              [] switch_num = 0 /\ event_type = 1 ->
                                    [cfg EXCEPT !.switch1_release = temp_config]
                              [] switch_num = 1 /\ event_type = 0 ->
                                    [cfg EXCEPT !.switch2_press = temp_config]
                              [] switch_num = 1 /\ event_type = 1 ->
                                    [cfg EXCEPT !.switch2_release = temp_config]
                          saved == legacy_save_config_to_flash(changed)
                      IN  [cfg |-> saved.cfg, fl |-> saved.fl, resp |-> <<>>]

\* process_sysex_data of the 4-slot firmware: [cfg, fl, resp]
legacy_process_sysex_data(cfg, fl, data, is_mounted) ==
    LET length == Len(data)
        nothing == [cfg |-> cfg, fl |-> fl, resp |-> <<>>]
    IN  IF basic_validation_failed(data) THEN nothing
        ELSE IF identifier_mismatch(data) THEN nothing
        ELSE LET command == D(data, 4) IN
             IF command = SYSEX_CMD_GET_CONFIG
             THEN IF length = SYSEX_BASIC_MIN_LENGTH
                  THEN [nothing EXCEPT !.resp = send_all_config(cfg, is_mounted)]
                  ELSE nothing
             ELSE IF command # SYSEX_CMD_SET_CONFIG THEN nothing
             ELSE legacy_set_config(cfg, fl, data)

\* one iteration of the byte loop of tud_midi_rx_cb of the 4-slot firmware
legacy_rx_byte(st, byte, is_mounted) ==
    IF byte = SYSEX_START_BYTE
    THEN [st EXCEPT !.sysex_buffer = <<byte>>]
    ELSE IF byte = SYSEX_END_BYTE
    THEN IF Len(st.sysex_buffer) < SYSEX_BUFFER_SIZE
         THEN LET frame == Append(st.sysex_buffer, byte)
                  r == legacy_process_sysex_data(st.current_config, st.flash, frame,
                                                 is_mounted)
              IN  [st EXCEPT
                     !.sysex_buffer = <<>>, !.current_config = r.cfg, !.flash = r.fl,
                     !.dispatched = Append(@, [frame |-> frame, resp |-> r.resp,
                                               cfg |-> r.cfg])]
         ELSE [st EXCEPT !.sysex_buffer = <<>>]
    ELSE IF Len(st.sysex_buffer) > 0 /\ Len(st.sysex_buffer) < SYSEX_BUFFER_SIZE - 1
    THEN [st EXCEPT !.sysex_buffer = Append(@, byte)]
    ELSE st

RECURSIVE legacy_rx_bytes(_, _, _)
legacy_rx_bytes(st, i, is_mounted) ==
    IF i > Len(st.usb_rx) THEN [st EXCEPT !.usb_rx = <<>>]
    ELSE legacy_rx_bytes(legacy_rx_byte(st, st.usb_rx[i], is_mounted), i + 1, is_mounted)

\* ------------------------------------------------------------- host traffic
\* the wire form (kind, channel, param1, param2) of ten valid messages
MessagePool ==
    << <<1, 0, 64, 127>>, <<2, 1, 5, 0>>, <<3, 9, 60, 100>>, <<0, 0, 0, 0>>,
       <<3, 15, 127, 0>>, <<1, 2, 7, 100>>, <<2, 15, 127, 127>>, <<1, 10, 1, 1>>,
       <<3, 3, 36, 1>>, <<1, 15, 127, 127>> >>

RECURSIVE Flatten(_)
Flatten(msgs) == IF msgs = <<>> THEN <<>> ELSE Head(msgs) \o Flatten(Tail(msgs))

\* the first k messages of the pool
PoolPrefix(k) == SubSeq(MessagePool, 1, k)

Filler(n) == [i \in 1 .. n |-> 0]

GetInfoFrame == SysexPreamble \o <<SYSEX_CMD_GET_INFO, SYSEX_END_BYTE>>

GetMessagesFrame(sw, ev) ==
    SysexPreamble \o <<SYSEX_CMD_GET_MESSAGE, sw, ev, SYSEX_END_BYTE>>

\* a SetMessages frame with the given count byte and message bytes
SetMessagesFrame(sw, ev, count, payload) ==
    SysexPreamble \o <<SYSEX_CMD_SET_MESSAGE, sw, ev, count>> \o payload \o <<SYSEX_END_BYTE>>

WellFormedSets ==
    {SetMessagesFrame(0, 0, k, Flatten(PoolPrefix(k))) : k \in 0 .. MAX_MESSAGES_PER_EVENT}
    \cup {SetMessagesFrame(1, 1, 0, <<>>),
          SetMessagesFrame(1, 0, 1, Flatten(<<MessagePool[7]>>) \o <<0, 0>>)}

\* SetMessages frames with a field out of range, a message that is not valid,
\* or fewer bytes than the count byte announces
BadSets ==
    {SetMessagesFrame(0, 0, 11, Flatten(PoolPrefix(10)) \o <<1, 0, 1, 1>>),
     SetMessagesFrame(2, 0, 1, <<1, 0, 1, 1>>),
     SetMessagesFrame(0, 2, 1, <<1, 0, 1, 1>>),
     SetMessagesFrame(0, 0, 3, <<2, 3, 9, 0, 4, 0, 1, 1, 1, 0, 1, 1>>),
     SetMessagesFrame(1, 1, 1, <<5, 0, 0, 0>>),
     SetMessagesFrame(1, 0, 1, <<1, 31, 64, 127>>),
     SetMessagesFrame(1, 0, 2, <<1, 1, 200, 3, 3, 2, 60, 255>>),
     SetMessagesFrame(0, 1, 1, <<1, 0, 64>>),
     SetMessagesFrame(0, 1, 2, <<1, 0, 64, 1>>),
     SysexPreamble \o <<SYSEX_CMD_SET_MESSAGE, 0, 0, SYSEX_END_BYTE>>}

Reads ==
    {GetInfoFrame,
     SysexPreamble \o <<SYSEX_CMD_GET_INFO, 0, SYSEX_END_BYTE>>,
     SysexPreamble \o <<SYSEX_CMD_GET_MESSAGE, 0, 0, 0, SYSEX_END_BYTE>>}
    \cup {GetMessagesFrame(sw, ev) : sw \in 0 .. 1, ev \in 0 .. 1}
    \cup {GetMessagesFrame(2, 0), GetMessagesFrame(0, 2)}

\* frames that fail the basic validation, fragments and ordinary MIDI traffic
Malformed ==
    {<<SYSEX_END_BYTE>>,
     <<SYSEX_START_BYTE, 0, 125, SYSEX_END_BYTE>>,
     <<SYSEX_START_BYTE, 0, 125, 2, 1, SYSEX_END_BYTE>>,
     <<SYSEX_START_BYTE, 0, 32, 1, 3, 0, 0, 0, SYSEX_END_BYTE>>,
     <<SYSEX_START_BYTE, 1, 125, 1, 2, 0, 0, SYSEX_END_BYTE>>,
     SysexPreamble \o <<4, SYSEX_END_BYTE>>,
     SysexPreamble \o <<SYSEX_CMD_SET_MESSAGE, 0>>,
     <<144, 60, 100>>}

\* frames of more than SYSEX_BUFFER_SIZE bytes, start to end marker
OverLong ==
    {SetMessagesFrame(0, 0, 0, Filler(SYSEX_BUFFER_SIZE - 9 + k)) : k \in 1 .. MaxOverrun}

\* frames of exactly SYSEX_BUFFER_SIZE bytes
FullLength ==
    {SetMessagesFrame(1, 1, 1, <<3, 1, 2, 3>> \o Filler(SYSEX_BUFFER_SIZE - 13))}

HostFrames == WellFormedSets \cup BadSets \cup Reads \cup Malformed \cup OverLong \cup FullLength

\* what the flash sector can hold at power-up
PowerUpImages == {Erased}

\* ------------------------------------------------------------------ actions
\* the switch sampler before any clock advance or pin change
SwitchInit ==
    /\ switch_states = [i \in 0 .. num_switches - 1 |->
                            [state |-> FALSE, debounce_time |-> U32(0, 0)]]
    /\ now = U32(0, 0)
    /\ gpio = [i \in 0 .. num_switches - 1 |-> TRUE]
    /\ mounted = FALSE
    /\ midi_out = <<>>
    /\ accepted = <<>>
    /\ watch = [i \in 0 .. num_switches - 1 |->
                    [since_accept |-> Never, since_raw |-> Never, accepts |-> 0,
                     mark |-> 0, close |-> FALSE, before |-> 0]]
    /\ ticks = 0
    /\ raw_changes = 0

\* main() up to its loop on a part whose sector is erased
StoreInit ==
    \E fl0 \in PowerUpImages :
        LET boot == Boot(fl0, "none") IN
        /\ current_config = boot.cfg
        /\ flash = boot.fl
        /\ dispatched = <<>>
        /\ pre = [cfg |-> boot.cfg, fl |-> boot.fl]
        /\ persisted = [cfg |-> boot.cfg, fault |-> "none", decayed |-> FALSE]
        /\ power = [boots |-> 0, corruptions |-> 0, loaded |-> boot.loaded,
                    fault |-> "none", found |-> [fault |-> "none", decayed |-> FALSE]]

\* main() of the 4-slot firmware up to its loop, on an erased sector
LegacyInit ==
    legacy = [current_config |-> legacy_boot(legacy_erased).cfg,
              flash |-> legacy_boot(legacy_erased).fl,
              sysex_buffer |-> <<>>, usb_rx |-> <<>>, sent |-> 0, dispatched |-> <<>>]

\* the main loop is running, interrupts enabled, the sector programmed
PersistInit ==
    persist = [pc |-> "idle", interrupts |-> TRUE, saved |-> TRUE, sector |-> "image",
               fault |-> "none", calls |-> 0, irqs |-> 0, polls |-> 0,
               returned |-> <<>>, seen |-> {}]

\* new MidiManager(): not connected, nothing pending
ClientInit ==
    client = [isConnected |-> FALSE, pendingResponses |-> <<>>, promises |-> <<>>,
              handled |-> 0, currentInput |-> "null", currentOutput |-> "null",
              attempts |-> <<>>, lookup_failures |-> 0]

Init ==
    /\ StoreInit
    /\ sysex_buffer = <<>>
    /\ usb_rx = <<>>
    /\ sent = 0
    /\ consumed = <<>>
    /\ SwitchInit
    /\ ClientInit
    /\ LegacyInit
    /\ PersistInit

\* the host writes one frame to the transport
HostSend(frame) ==
    /\ sent < MaxFrames
    /\ Len(usb_rx) <= MaxBacklog
    /\ usb_rx' = usb_rx \o frame
    /\ sent' = sent + 1
    /\ UNCHANGED <<sysex_buffer, consumed, store_vars, switch_vars, client, legacy, persist>>

\* the transport delivers the first n bytes in flight and the callback reads
\* them all (while tud_midi_available()), byte by byte; fault is what the
\* flash does if a command of this delivery programs it
tud_midi_rx_cb(n, fault) ==
    /\ n >= 1
    /\ n <= Len(usb_rx)
    /\ LET bytes == SubSeq(usb_rx, 1, n)
           st == rx_bytes([buf |-> capture_on_entry(sysex_buffer),
                           cfg |-> current_config, fl |-> flash,
                           disp |-> dispatched, pre |-> pre,
                           persisted |-> persisted, fault |-> fault],
                          bytes, 1, n)
       IN  /\ sysex_buffer' = st.buf
           /\ current_config' = st.cfg
           /\ flash' = st.fl
           /\ dispatched' = st.disp
           /\ pre' = st.pre
           /\ persisted' = st.persisted
           /\ consumed' = consumed \o bytes
           /\ usb_rx' = SubSeq(usb_rx, n + 1, Len(usb_rx))
    /\ UNCHANGED <<sent, power, switch_vars, client, legacy, persist>>

\* the protocol on a part whose flash programs correctly
Next ==
    \/ \E frame \in HostFrames : HostSend(frame)
    \/ \E n \in 1 .. MaxFragment : tud_midi_rx_cb(n, "none")
    \/ sysex_pos = 0 /\ tud_midi_rx_cb(Len(usb_rx), "none")

Spec == Init /\ [][Next]_vars

\* ------------------------------------------------ storage faults and reboots
\* the value a stored byte, or the bits of a stored checksum byte that
\* differ, take when the cell decays to the erased state
CorruptValues == {255}

\* the commands sent, power cycles and decayed bytes so far
StoreSteps == sent + power.boots + power.corruptions

\* one byte of the stored magic changes
CorruptMagic(i, v) ==
    /\ StoreSteps < MaxStoreSteps
    /\ flash.magic[i] # v
    /\ flash' = [flash EXCEPT !.magic[i] = v]
    /\ persisted' = [persisted EXCEPT !.decayed = TRUE]
    /\ power' = [power EXCEPT !.corruptions = @ + 1]
    /\ UNCHANGED <<current_config, dispatched, pre, sysex_vars, switch_vars, client, legacy, persist>>

\* one byte of the stored checksum changes
CorruptChecksum(i, v) ==
    /\ StoreSteps < MaxStoreSteps
    /\ flash.checksum.flip[i] # v
    /\ flash' = [flash EXCEPT !.checksum.flip[i] = v]
    /\ persisted' = [persisted EXCEPT !.decayed = TRUE]
    /\ power' = [power EXCEPT !.corruptions = @ + 1]
    /\ UNCHANGED <<current_config, dispatched, pre, sysex_vars, switch_vars, client, legacy, persist>>

\* a power cycle: main() runs up to its loop on the image in the sector; the
\* capture statics start again and the bytes in flight are lost
Reboot(fault) ==
    /\ StoreSteps < MaxStoreSteps
    /\ LET boot == Boot(flash, fault) IN
        /\ current_config' = boot.cfg
        /\ flash' = boot.fl
        /\ persisted' = IF boot.loaded THEN persisted
                        ELSE [cfg |-> boot.cfg, fault |-> fault, decayed |-> FALSE]
        /\ power' = [power EXCEPT
                        !.boots = @ + 1, !.loaded = boot.loaded, !.fault = fault,
                        !.found = [fault |-> persisted.fault,
                                   decayed |-> persisted.decayed]]
    /\ sysex_buffer' = <<>>
    /\ usb_rx' = <<>>
    /\ UNCHANGED <<sent, consumed, dispatched, pre, switch_vars, client, legacy, persist>>

\* the commands of the storage behaviours
StoreFrames ==
    {SetMessagesFrame(0, 0, 1, <<1, 0, 64, 127>>),
     SetMessagesFrame(0, 0, 10, Flatten(PoolPrefix(10))),
     SetMessagesFrame(1, 1, 1, <<5, 0, 0, 0>>),
     GetMessagesFrame(0, 0)}

\* whole frames, flash faults, decay of the stored magic and checksum, reboots
StoreNext ==
    \/ \E frame \in StoreFrames : StoreSteps < MaxStoreSteps /\ HostSend(frame)
    \/ \E fault \in Faults : sysex_pos = 0 /\ tud_midi_rx_cb(Len(usb_rx), fault)
    \/ \E i \in 1 .. 4, v \in CorruptValues : CorruptMagic(i, v)
    \/ \E i \in 1 .. 4, v \in CorruptValues : CorruptChecksum(i, v)
    \/ \E fault \in Faults : Reboot(fault)

StoreSpec == Init /\ [][StoreNext]_vars

\* ----------------------------------------------------------------- switches
\* sample_switch that accepts a transition without storing the new state
sample_switch_keeping_state(st, i) ==
    LET pressed == ~ gpio[i]
    IN  IF /\ pressed # st.states[i].state
           /\ is_debounce_elapsed(st.states[i].debounce_time, now)
        THEN LET event_idx == i * 2 + (IF pressed THEN 0 ELSE 1)
                 packets == send_midi_messages(current_config.events[event_idx], mounted)
             IN  [states |-> [st.states EXCEPT ![i].debounce_time = now],
                  out |-> st.out \o packets,
                  log |-> Append(st.log, [switch |-> i, pressed |-> pressed,
                                          mounted |-> mounted, packets |-> packets])]
        ELSE st

\* sample_switch that restarts the debounce time at every sample of a level
\* it does not accept
sample_switch_refreshing(st, i) ==
    LET pressed == ~ gpio[i]
    IN  IF /\ pressed # st.states[i].state
           /\ is_debounce_elapsed(st.states[i].debounce_time, now)
        THEN LET event_idx == i * 2 + (IF pressed THEN 0 ELSE 1)
                 packets == send_midi_messages(current_config.events[event_idx], mounted)
             IN  [states |-> [st.states EXCEPT
                                ![i] = [state |-> pressed, debounce_time |-> now]],
                  out |-> st.out \o packets,
                  log |-> Append(st.log, [switch |-> i, pressed |-> pressed,
                                          mounted |-> mounted, packets |-> packets])]
        ELSE IF pressed # st.states[i].state
        THEN [st EXCEPT !.states[i].debounce_time = now]
        ELSE st

\* one iteration of the loop of check_switches, for switch i, on
\* st = [states, out, log]
sample_switch(st, i) ==
    LET pressed == ~ gpio[i]
    IN  IF /\ pressed # st.states[i].state
           /\ is_debounce_elapsed(st.states[i].debounce_time, now)
        THEN LET event_idx == i * 2 + (IF pressed THEN 0 ELSE 1)
                 packets == send_midi_messages(current_config.events[event_idx], mounted)
             IN  [states |-> [st.states EXCEPT
                                ![i] = [state |-> pressed, debounce_time |-> now]],
                  out |-> st.out \o packets,
                  log |-> Append(st.log, [switch |-> i, pressed |-> pressed,
                                          mounted |-> mounted, packets |-> packets])]
        ELSE st

RECURSIVE sample_switches(_, _)
sample_switches(st, i) ==
    IF i < num_switches THEN sample_switches(sample_switch(st, i), i + 1) ELSE st

\* a time since a change, d ms later
Aged(since, d) ==
    IF since = Never THEN Never
    ELSE IF since + d > SinceCap THEN SinceCap ELSE since + d

\* one call of check_switches from the main loop
check_switches ==
    LET st == sample_switches([states |-> switch_states, out |-> midi_out,
                               log |-> accepted], 0)
    IN  /\ switch_states' = st.states
        /\ midi_out' = st.out
        /\ accepted' = st.log
        /\ watch' = [i \in 0 .. num_switches - 1 |->
                        IF st.states[i].state # switch_states[i].state
                        THEN [watch[i] EXCEPT !.since_accept = 0, !.accepts = @ + 1]
                        ELSE watch[i]]
        /\ UNCHANGED <<now, gpio, mounted, ticks, raw_changes, sysex_vars, store_vars, client, legacy, persist>>

\* the amounts by which board_millis() advances between two steps
TickSteps == {1, 19}

Tick(d) ==
    /\ ticks < MaxTicks
    /\ ticks' = ticks + 1
    /\ now' = add32(now, d)
    /\ watch' = [i \in 0 .. num_switches - 1 |->
                    [watch[i] EXCEPT !.since_accept = Aged(@, d), !.since_raw = Aged(@, d)]]
    /\ UNCHANGED <<switch_states, gpio, mounted, midi_out, accepted, raw_changes,
                   sysex_vars, store_vars, client, legacy, persist>>

\* 15 ms before board_millis() wraps to 0
NearWrap == U32(Half - 1, Half - 15)

\* the device runs untouched, every input settled, until its clock is about
\* to wrap
Idle ==
    /\ now.hi = 0
    /\ ticks = 0
    /\ raw_changes = 0
    /\ \A i \in 0 .. num_switches - 1 : (~ gpio[i]) = switch_states[i].state
    /\ now' = NearWrap
    /\ watch' = [i \in 0 .. num_switches - 1 |->
                    [watch[i] EXCEPT !.since_accept = Aged(@, SinceCap),
                                     !.since_raw = Aged(@, SinceCap)]]
    /\ UNCHANGED <<switch_states, gpio, mounted, midi_out, accepted, ticks, raw_changes,
                   sysex_vars, store_vars, client, legacy, persist>>

\* the pin of switch i changes its level: a contact closes, opens or bounces
RawChange(i) ==
    /\ raw_changes < MaxRawChanges
    /\ raw_changes' = raw_changes + 1
    /\ gpio' = [gpio EXCEPT ![i] = ~ @]
    /\ watch' = [watch EXCEPT
                    ![i] = [@ EXCEPT
                              !.since_raw = 0, !.accepts = 0, !.mark = Len(accepted),
                              !.close = watch[i].since_raw # Never
                                        /\ watch[i].since_raw < DEBOUNCE_TIME_MS,
                              !.before = watch[i].accepts]]
    /\ UNCHANGED <<switch_states, now, mounted, midi_out, accepted, ticks,
                   sysex_vars, store_vars, client, legacy, persist>>

\* the host configures or releases the MIDI interface, before the first pin
\* change
UsbMount ==
    /\ raw_changes = 0
    /\ mounted' = ~ mounted
    /\ UNCHANGED <<switch_states, now, gpio, midi_out, accepted, watch, ticks,
                   raw_changes, sysex_vars, store_vars, client, legacy, persist>>

\* the mappings of the switch behaviours, set over the protocol
SwitchFrames ==
    {SetMessagesFrame(0, 0, 10, Flatten(PoolPrefix(10))),
     SetMessagesFrame(0, 0, 1, <<1, 0, 64, 127>>),
     SetMessagesFrame(0, 1, 3, <<0, 5, 6, 7, 3, 2, 60, 0, 2, 3, 9, 0>>)}

\* no clock advance or pin change has been followed yet
Untouched == ticks = 0 /\ raw_changes = 0 /\ now.hi = 0

\* the switches, the clock and the transport, after at most one mapping command
SwitchNext ==
    \/ check_switches
    \/ \E d \in TickSteps : Tick(d)
    \/ Idle
    \/ \E i \in 0 .. num_switches - 1 : RawChange(i)
    \/ UsbMount
    \/ \E frame \in SwitchFrames : Untouched /\ sent = 0 /\ HostSend(frame)
    \/ Untouched /\ tud_midi_rx_cb(Len(usb_rx), "none")

SwitchSpec == Init /\ [][SwitchNext]_vars

\* ------------------------------------------------ mounting at any moment
\* the host configures or releases the MIDI interface, whatever the switches
\* have done so far
UsbRemount ==
    /\ mounted' = ~ mounted
    /\ UNCHANGED <<switch_states, now, gpio, midi_out, accepted, watch, ticks,
                   raw_changes, sysex_vars, store_vars, client, legacy, persist>>

\* the switches, the clock and a transport that comes and goes
MountNext ==
    \/ check_switches
    \/ \E d \in TickSteps : Tick(d)
    \/ Idle
    \/ \E i \in 0 .. num_switches - 1 : RawChange(i)
    \/ UsbRemount

MountSpec == Init /\ [][MountNext]_vars

\* ------------------------------------------- save_config_to_flash in steps
\* save_config_to_flash_step with interrupts left as they are by the first
\* call of the critical section
save_config_to_flash_step_unmasked(p) ==
    CASE p.pc = "checksum" -> [p EXCEPT !.pc = "disable"]
      [] p.pc = "disable" -> [p EXCEPT !.saved = p.interrupts, !.pc = "erase"]
      [] p.pc = "erase" -> [p EXCEPT !.sector = "erased", !.pc = "program"]
      [] p.pc = "program" ->
            [p EXCEPT !.sector = CASE p.fault = "none" -> "image"
                                  [] p.fault = "not_programmed" -> "erased"
                                  [] p.fault = "bad_cell" -> "bad",
                      !.pc = "restore"]
      [] p.pc = "restore" -> [p EXCEPT !.interrupts = p.saved, !.pc = "verify"]
      [] p.pc = "verify" ->
            [p EXCEPT !.returned = Append(@, p.sector = "image"), !.pc = "idle"]

\* the next statement of save_config_to_flash: the checksum, then
\* save_and_disable_interrupts, flash_range_erase, flash_range_program,
\* restore_interrupts, and the read-back with its three returns
save_config_to_flash_step(p) ==
    CASE p.pc = "checksum" -> [p EXCEPT !.pc = "disable"]
      [] p.pc = "disable" ->
            [p EXCEPT !.saved = p.interrupts, !.interrupts = FALSE, !.pc = "erase"]
      [] p.pc = "erase" -> [p EXCEPT !.sector = "erased", !.pc = "program"]
      [] p.pc = "program" ->
            [p EXCEPT !.sector = CASE p.fault = "none" -> "image"
                                  [] p.fault = "not_programmed" -> "erased"
                                  [] p.fault = "bad_cell" -> "bad",
                      !.pc = "restore"]
      [] p.pc = "restore" -> [p EXCEPT !.interrupts = p.saved, !.pc = "verify"]
      [] p.pc = "verify" ->
            [p EXCEPT !.returned = Append(@, p.sector = "image"), !.pc = "idle"]

\* main() or process_sysex_data calls save_config_to_flash
SaveCall(fault) ==
    /\ persist.pc = "idle"
    /\ persist.calls < MaxPersistCalls
    /\ persist' = [persist EXCEPT !.pc = "checksum", !.fault = fault, !.calls = @ + 1]
    /\ UNCHANGED <<sysex_vars, store_vars, switch_vars, client, legacy>>

\* save_config_to_flash executes its next statement
SaveStep ==
    /\ persist.pc # "idle"
    /\ persist' = save_config_to_flash_step(persist)
    /\ UNCHANGED <<sysex_vars, store_vars, switch_vars, client, legacy>>

\* the USB interrupt is taken: its handler runs wherever the main program
\* is, provided interrupts are enabled
UsbIrq ==
    /\ persist.interrupts
    /\ persist.irqs < MaxObservers
    /\ persist' = [persist EXCEPT
                      !.irqs = @ + 1,
                      !.seen = @ \cup {[by |-> "irq", pc |-> persist.pc]}]
    /\ UNCHANGED <<sysex_vars, store_vars, switch_vars, client, legacy>>

\* check_switches or a transport callback runs from the main loop, which it
\* does only when the main program is not inside save_config_to_flash
MainStep ==
    /\ persist.pc = "idle"
    /\ persist.polls < MaxObservers
    /\ persist' = [persist EXCEPT
                      !.polls = @ + 1,
                      !.seen = @ \cup {[by |-> "main", pc |-> persist.pc]}]
    /\ UNCHANGED <<sysex_vars, store_vars, switch_vars, client, legacy>>

PersistNext ==
    \/ \E fault \in Faults : SaveCall(fault)
    \/ SaveStep
    \/ UsbIrq
    \/ MainStep

PersistSpec == Init /\ [][PersistNext]_vars

\* ------------------------------------------- images not written by the device
\* the default configuration with message m as the only message of the press
\* slot of switch 0, stamped with its checksum: what a programming tool or
\* another build can leave in the sector
ForeignImage(m) ==
    LET cfg == [init_default_config EXCEPT !.events[0].messages[0] = m]
    IN  [cfg EXCEPT !.checksum = calculate_checksum(cfg)]

\* images with a channel, a first or a second parameter out of range
ForeignImages ==
    {ForeignImage([msg_type |-> MIDI_MSG_CC, channel |-> 31, param1 |-> 64, param2 |-> 127]),
     ForeignImage([msg_type |-> MIDI_MSG_NOTE, channel |-> 0, param1 |-> 200, param2 |-> 100]),
     ForeignImage([msg_type |-> MIDI_MSG_CC, channel |-> 1, param1 |-> 7, param2 |-> 255])}

\* main() up to its loop on a sector that holds one of these images
ForeignInit ==
    /\ \E fl0 \in ForeignImages :
        LET boot == Boot(fl0, "none") IN
        /\ current_config = boot.cfg
        /\ flash = boot.fl
        /\ dispatched = <<>>
        /\ pre = [cfg |-> boot.cfg, fl |-> boot.fl]
        /\ persisted = [cfg |-> boot.cfg, fault |-> "none", decayed |-> FALSE]
        /\ power = [boots |-> 0, corruptions |-> 0, loaded |-> boot.loaded,
                    fault |-> "none", found |-> [fault |-> "none", decayed |-> FALSE]]
    /\ sysex_buffer = <<>>
    /\ usb_rx = <<>>
    /\ sent = 0
    /\ consumed = <<>>
    /\ SwitchInit
    /\ ClientInit
    /\ LegacyInit
    /\ PersistInit

\* the switches, the clock and the transport on such an image
ForeignNext ==
    \/ check_switches
    \/ \E d \in TickSteps : Tick(d)
    \/ \E i \in 0 .. num_switches - 1 : RawChange(i)
    \/ UsbMount

ForeignSpec == ForeignInit /\ [][ForeignNext]_vars

\* ---------------------------------------------------------------- main loop
\* switch i shows a level that check_switches does not accept yet
Waiting(i) ==
    /\ (~ gpio[i]) # switch_states[i].state
    /\ ~ is_debounce_elapsed(switch_states[i].debounce_time, now)

\* the time between two looks at the clock in the main-loop behaviours
WaitSteps == {DEBOUNCE_TIME_MS \div 2}

\* board_millis() advances while an input waits for its debounce time; the
\* clock is not followed while nothing waits for it
Wait(d) ==
    /\ \E i \in 0 .. num_switches - 1 : Waiting(i)
    /\ now' = add32(now, d)
    /\ watch' = [i \in 0 .. num_switches - 1 |->
                    [watch[i] EXCEPT !.since_accept = Aged(@, d), !.since_raw = Aged(@, d)]]
    /\ UNCHANGED <<switch_states, gpio, mounted, midi_out, accepted, ticks, raw_changes,
                   sysex_vars, store_vars, client, legacy, persist>>

\* tud_task() of the main loop: the callback reads every byte in flight
tud_task == \E fault \in Faults : tud_midi_rx_cb(Len(usb_rx), fault)

\* traffic that is in error, and the requests that follow it
LiveFrames ==
    OverLong
    \cup {GetInfoFrame,
          SysexPreamble \o <<SYSEX_CMD_SET_MESSAGE, 0>>,
          SetMessagesFrame(0, 0, 1, <<5, 0, 0, 0>>),
          SetMessagesFrame(0, 0, 1, <<1, 0, 64, 127>>)}

\* the main loop and its environment: the host configures the interface and
\* writes frames before the first pin change, the pins change, the clock runs
LiveNext ==
    \/ tud_task
    \/ check_switches
    \/ \E d \in WaitSteps : Wait(d)
    \/ \E i \in 0 .. num_switches - 1 : RawChange(i)
    \/ sent = 0 /\ UsbMount
    \/ \E frame \in LiveFrames : Untouched /\ mounted /\ HostSend(frame)

\* what a tud_task step does to the bytes in flight: it reads them all.  No
\* other step of LiveNext takes a byte from usb_rx.
tud_task_reads == usb_rx # <<>> /\ usb_rx' = <<>>

\* while (1) { tud_task(); check_switches(); ... } never ends, and the
\* millisecond timer keeps counting.  The fairness of tud_task is stated on
\* the bytes in flight, whose ENABLED TLC evaluates without running the
\* byte loop.
LiveSpec ==
    /\ Init
    /\ [][LiveNext]_vars
    /\ WF_usb_rx(tud_task_reads)
    /\ WF_vars(check_switches)
    /\ WF_vars(\E d \in WaitSteps : Wait(d))

\* ------------------------------------------------------- configuration page
\* a key of pendingResponses: 'info', `message_${sw}_${ev}` or `set_${sw}_${ev}`
ResponseKey(kind, sw, ev) == [kind |-> kind, sw |-> sw, ev |-> ev]

\* Map.set and Map.delete on a map held as a function
MapSet(m, key, value) ==
    [k \in (DOMAIN m) \cup {key} |-> IF k = key THEN value ELSE m[k]]

MapDelete(m, key) == [k \in (DOMAIN m) \ {key} |-> m[k]]

\* createResponsePromise: a new promise with its timer armed; its resolve and
\* reject functions replace whatever pendingResponses held under the key
createResponsePromise(c, key) ==
    [c EXCEPT
        !.promises = Append(@, [key |-> key, state |-> "pending", timer |-> TRUE,
                                by |-> <<>>, cut |-> FALSE]),
        !.pendingResponses = MapSet(@, key, Len(c.promises) + 1)]

\* the setTimeout callback of promise p: it deletes the entry under the
\* promise's key and rejects the promise with 'Response timeout'
response_timeout(c, p) ==
    [c EXCEPT
        !.pendingResponses = MapDelete(@, c.promises[p].key),
        !.promises[p] = [@ EXCEPT !.timer = FALSE,
                                  !.state = IF @ = "pending" THEN "timeout" ELSE @]]

\* the resolve and reject functions stored under a key: clearTimeout, delete
\* the entry, settle the promise (data is kept as history)
pending_settle(c, key, outcome, data) ==
    LET p == c.pendingResponses[key]
    IN  [c EXCEPT
            !.pendingResponses = MapDelete(@, key),
            !.promises[p] = [@ EXCEPT !.timer = FALSE, !.by = data,
                                      !.state = IF @ = "pending" THEN outcome ELSE @]]

handleInfoResponse(c, data) ==
    IF Len(data) < 8 THEN c
    ELSE IF ResponseKey("info", 0, 0) \in DOMAIN c.pendingResponses
    THEN pending_settle(c, ResponseKey("info", 0, 0), "resolved", data)
    ELSE c

handleMessageResponse(c, data) ==
    IF Len(data) < 9 THEN c
    ELSE LET responseKey == ResponseKey("message", D(data, 5), D(data, 6))
         IN  IF responseKey \in DOMAIN c.pendingResponses
             THEN pending_settle(c, responseKey, "resolved", data)
             ELSE c

\* handleMessageResponse with a loop that wants two more bytes after a message
RECURSIVE decode_messages_short(_, _, _, _)
decode_messages_short(data, i, pos, messages) ==
    IF i < D(data, 7) /\ pos + 5 < Len(data)
    THEN decode_messages_short(data, i + 1, pos + 4,
             Append(messages, [msgType |-> D(data, pos), channel |-> D(data, pos + 1),
                               param1 |-> D(data, pos + 2), param2 |-> D(data, pos + 3)]))
    ELSE messages

\* the loop of handleMessageResponse: one message per 4 bytes while
\* i < messageCount and pos + 3 < data.length
RECURSIVE decode_messages(_, _, _, _)
decode_messages(data, i, pos, messages) ==
    IF i < D(data, 7) /\ pos + 3 < Len(data)
    THEN decode_messages(data, i + 1, pos + 4,
             Append(messages, [msgType |-> D(data, pos), channel |-> D(data, pos + 1),
                               param1 |-> D(data, pos + 2), param2 |-> D(data, pos + 3)]))
    ELSE messages

\* the result handleMessageResponse resolves the promise with
message_result(data) ==
    [switchNum |-> D(data, 5), eventType |-> D(data, 6),
     messages |-> decode_messages(data, 0, 8, <<>>)]

\* the loop of handleSetResponse over the entries whose key starts with 'set_'
RECURSIVE settle_sets(_, _, _, _)
settle_sets(c, keys, outcome, data) ==
    IF keys = {} THEN c
    ELSE LET key == CHOOSE k \in keys : TRUE
         IN  settle_sets(pending_settle(c, key, outcome, data), keys \ {key}, outcome, data)

handleSetResponse(c, data) ==
    IF Len(data) < 7 THEN c
    ELSE settle_sets(c, {k \in DOMAIN c.pendingResponses : k.kind = "set"},
                     IF D(data, 5) = 0 THEN "resolved" ELSE "failed", data)

handleSysExMessage(c, data) ==
    IF Len(data) < 6 \/ D(data, Len(data) - 1) # 247 THEN c
    ELSE IF D(data, 1) # 0 \/ D(data, 2) # 125 \/ D(data, 3) # 1 THEN c
    ELSE LET command == D(data, 4)
         IN  CASE command = SYSEX_CMD_GET_INFO -> handleInfoResponse(c, data)
               [] command = SYSEX_CMD_GET_MESSAGE -> handleMessageResponse(c, data)
               [] command = SYSEX_CMD_SET_MESSAGE -> handleSetResponse(c, data)
               [] OTHER -> c

handleMidiMessage(c, data) ==
    IF D(data, 0) = 240 THEN handleSysExMessage(c, data) ELSE c

\* disconnect that also cancels the timers of the pending requests
disconnect_cancelling_timers(c) ==
    [c EXCEPT
        !.currentInput = "null",
        !.currentOutput = "null",
        !.isConnected = FALSE,
        !.pendingResponses = <<>>,
        !.promises = [p \in DOMAIN c.promises |->
                        [c.promises[p] EXCEPT !.timer = FALSE,
                                              !.cut = @ \/ c.promises[p].state = "pending"]]]

\* disconnect(): onmidimessage is removed and pendingResponses cleared; the
\* timers keep running
disconnect(c) ==
    [c EXCEPT
        !.currentInput = "null",
        !.currentOutput = "null",
        !.isConnected = FALSE,
        !.pendingResponses = <<>>,
        !.promises = [p \in DOMAIN c.promises |->
                        [c.promises[p] EXCEPT !.cut = @ \/ c.promises[p].state = "pending"]]]

\* the response frames the device has written so far, in order
RECURSIVE ResponsesOf(_)
ResponsesOf(log) ==
    IF log = <<>> THEN <<>> ELSE Head(log).resp \o ResponsesOf(Tail(log))

\* createResponsePromise(key) followed by currentOutput.send(sysexData)
Request(c, key, sysexData) ==
    /\ Len(c.promises) < MaxRequests
    /\ client' = createResponsePromise(c, key)
    /\ usb_rx' = usb_rx \o sysexData
    /\ sent' = sent + 1
    /\ UNCHANGED <<sysex_buffer, consumed, store_vars, switch_vars, legacy, persist>>

getDeviceInfo ==
    /\ client.isConnected
    /\ client.currentOutput # "null"
    /\ Request(client, ResponseKey("info", 0, 0),
               <<240, 0, 125, 1, SYSEX_CMD_GET_INFO, 247>>)

getMessages(switchNum, eventType) ==
    /\ client.isConnected
    /\ Request(client, ResponseKey("message", switchNum, eventType),
               <<240, 0, 125, 1, SYSEX_CMD_GET_MESSAGE,
                 switchNum % 128, eventType % 128, 247>>)

\* messages are <<msgType, channel, param1, param2>> tuples
setMessages(switchNum, eventType, messages) ==
    /\ client.isConnected
    /\ Len(messages) <= 10
    /\ Request(client, ResponseKey("set", switchNum, eventType),
               <<240, 0, 125, 1, SYSEX_CMD_SET_MESSAGE,
                 switchNum % 128, eventType % 128, Len(messages) % 128>>
               \o Flatten([i \in 1 .. Len(messages) |->
                              [j \in 1 .. 4 |-> messages[i][j] % 128]])
               \o <<247>>)

\* connectToDevice after its await: every call whose device-info promise has
\* settled dispatches 'connected' and returns true, or takes the catch and
\* returns false
connectToDevice_resume(c) ==
    [c EXCEPT !.attempts =
        [a \in DOMAIN c.attempts |->
            LET at == c.attempts[a]
            IN  IF at.returned # "pending" THEN at
                ELSE CASE c.promises[at.promise].state = "resolved"
                            -> [at EXCEPT !.returned = "true", !.connected = TRUE]
                       [] c.promises[at.promise].state \in {"failed", "timeout"}
                            -> [at EXCEPT !.returned = "false"]
                       [] OTHER -> at]]

\* connectToDevice(deviceId) up to its await: with the ports found the page
\* connects and asks for the device information; with a port missing the
\* call throws before it changes anything and returns false
connectToDevice(found) ==
    /\ ~ client.isConnected
    /\ IF found
       THEN Request([client EXCEPT
                        !.currentInput = "port",
                        !.currentOutput = "port",
                        !.isConnected = TRUE,
                        !.attempts = Append(@, [promise |-> Len(client.promises) + 1,
                                                returned |-> "pending",
                                                connected |-> FALSE])],
                    ResponseKey("info", 0, 0),
                    <<240, 0, 125, 1, SYSEX_CMD_GET_INFO, 247>>)
       ELSE /\ client.lookup_failures < MaxLookupFailures
            /\ client' = [client EXCEPT !.lookup_failures = @ + 1]
            /\ UNCHANGED <<sysex_vars, store_vars, switch_vars, legacy, persist>>

\* the next response of the device reaches the page: onmidimessage runs
\* handleMidiMessage, or nothing runs after disconnect() removed it
onmidimessage ==
    /\ client.handled < Len(ResponsesOf(dispatched))
    /\ LET data == ResponsesOf(dispatched)[client.handled + 1]
       IN  client' = connectToDevice_resume(
                         [(IF client.isConnected THEN handleMidiMessage(client, data)
                                                 ELSE client)
                          EXCEPT !.handled = @ + 1])
    /\ UNCHANGED <<sysex_vars, store_vars, switch_vars, legacy, persist>>

\* the timer of promise p fires, responseTimeout after the request
TimerFires(p) ==
    /\ p \in 1 .. Len(client.promises)
    /\ client.promises[p].timer
    /\ client' = connectToDevice_resume(response_timeout(client, p))
    /\ UNCHANGED <<sysex_vars, store_vars, switch_vars, legacy, persist>>

\* the user disconnects, or the port goes away (handleStateChange)
Disconnect ==
    /\ client.isConnected
    /\ client' = disconnect(client)
    /\ UNCHANGED <<sysex_vars, store_vars, switch_vars, legacy, persist>>

\* the calls of the page: a read that is answered, one that the device
\* ignores, a write that succeeds and one that the device rejects
ClientCalls ==
    \/ getDeviceInfo
    \/ getMessages(0, 0)
    \/ getMessages(2, 0)
    \/ setMessages(0, 1, << <<3, 2, 60, 100>> >>)
    \/ setMessages(1, 0, << <<5, 0, 0, 0>> >>)

ClientNext ==
    \/ \E found \in BOOLEAN : connectToDevice(found)
    \/ ClientCalls
    \/ Disconnect
    \/ tud_midi_rx_cb(Len(usb_rx), "none")
    \/ onmidimessage
    \/ \E p \in 1 .. MaxRequests : TimerFires(p)

\* a timer that is armed fires unless it is cleared
ClientSpec ==
    /\ Init
    /\ [][ClientNext]_vars
    /\ \A p \in 1 .. MaxRequests : WF_vars(TimerFires(p))

\* ---------------------------------------------- fixed 4-slot firmware, actions
\* a set config frame of the 4-slot protocol
SetConfigFrame(sw, ev, msg_type, channel, param1, param2) ==
    SysexPreamble \o
    <<SYSEX_CMD_SET_CONFIG, sw, ev, msg_type, channel, param1, param2, SYSEX_END_BYTE>>

GetConfigFrame == SysexPreamble \o <<SYSEX_CMD_GET_CONFIG, SYSEX_END_BYTE>>

\* the read request, writes of every slot, writes the firmware drops and a
\* read request with a byte too many
LegacyFrames ==
    {GetConfigFrame,
     SetConfigFrame(0, 0, 3, 0, 60, 127),
     SetConfigFrame(0, 1, 0, 0, 0, 0),
     SetConfigFrame(1, 0, 1, 15, 11, 127),
     SetConfigFrame(1, 1, 2, 9, 127, 0),
     SetConfigFrame(0, 0, 4, 0, 1, 1),
     SetConfigFrame(2, 0, 1, 0, 1, 1),
     SysexPreamble \o <<SYSEX_CMD_GET_CONFIG, 0, SYSEX_END_BYTE>>}

\* the host writes a frame to the configured interface
LegacyHostSend(frame) ==
    /\ mounted
    /\ legacy.sent < MaxLegacyFrames
    /\ legacy' = [legacy EXCEPT !.usb_rx = @ \o frame, !.sent = @ + 1]
    /\ UNCHANGED <<sysex_vars, store_vars, switch_vars, client, persist>>

\* tud_midi_rx_cb of the 4-slot firmware reads every byte in flight
legacy_tud_midi_rx_cb ==
    /\ legacy.usb_rx # <<>>
    /\ legacy' = legacy_rx_bytes(legacy, 1, mounted)
    /\ UNCHANGED <<sysex_vars, store_vars, switch_vars, client, persist>>

LegacyNext ==
    \/ ~ mounted /\ UsbMount
    \/ \E frame \in LegacyFrames : LegacyHostSend(frame)
    \/ legacy_tud_midi_rx_cb

LegacySpec == Init /\ [][LegacyNext]_vars

\* =================================================================== claims
HasDispatch == Len(dispatched) > 0
LastFrame == dispatched[Len(dispatched)].frame
LastResp == dispatched[Len(dispatched)].resp

Max(S) == CHOOSE x \in S : \A y \in S : y <= x

\* both markers and the identifier triple 00 7D 01
WellFramed(f) ==
    /\ Len(f) >= 6
    /\ f[1] = 240
    /\ f[Len(f)] = 247
    /\ f[2] = 0 /\ f[3] = 125 /\ f[4] = 1

IsCommand(f, code) == WellFramed(f) /\ f[5] = code

ErrorFrame == <<240, 0, 125, 1, 3, 1, 247>>
SuccessFrame == <<240, 0, 125, 1, 3, 0, 247>>

\* the latest dispatch left the configuration and the stored image as they were
NothingChanged == current_config = pre.cfg /\ flash = pre.fl

Slot(cfg, sw, ev) == cfg.events[sw * 2 + ev]

\* message i (from 0) as written in a SetMessages frame
FrameMessage(f, i) ==
    [msg_type |-> f[9 + 4 * i], channel |-> f[10 + 4 * i],
     param1 |-> f[11 + 4 * i], param2 |-> f[12 + 4 * i]]

ValidWire(m) ==
    m.msg_type <= 3 /\ m.channel <= 15 /\ m.param1 <= 127 /\ m.param2 <= 127

\* a SetMessages frame whose indices and count are in range and that holds
\* all the messages it announces
HeaderAccepted(f) ==
    /\ IsCommand(f, 3)
    /\ Len(f) >= 9
    /\ f[6] < num_switches
    /\ f[7] <= 1
    /\ f[8] <= 10
    /\ Len(f) >= 9 + 4 * f[8]

\* the slot a SetMessages frame describes
FrameEvent(f) ==
    [message_count |-> f[8],
     messages |-> [i \in 0 .. 9 |-> IF i < f[8] THEN FrameMessage(f, i) ELSE ZeroMessage]]

\* the 4 fields of every message of a slot, in slot order
SlotBytes(event) ==
    [i \in 1 .. 4 * event.message_count |->
        LET m == event.messages[(i - 1) \div 4]
        IN  CASE (i - 1) % 4 = 0 -> m.msg_type
              [] (i - 1) % 4 = 1 -> m.channel
              [] (i - 1) % 4 = 2 -> m.param1
              [] (i - 1) % 4 = 3 -> m.param2]

\* C1: a SetMessages frame with an accepted header and a message whose kind
\* byte exceeds 3 is answered with the error response and leaves the targeted
\* slot of the in-memory configuration as it was before the command.
C1_RejectedSetKeepsSlot ==
    (/\ HasDispatch
     /\ HeaderAccepted(LastFrame)
     /\ \E i \in 0 .. LastFrame[8] - 1 : FrameMessage(LastFrame, i).msg_type > 3)
    => /\ LastResp = <<ErrorFrame>>
       /\ Slot(current_config, LastFrame[6], LastFrame[7])
            = Slot(pre.cfg, LastFrame[6], LastFrame[7])

\* C2: a SetMessages frame with a count above 10, a switch index not below
\* the switch count or an event type above 1 is answered with the error
\* response and changes neither the configuration nor the stored image.
C2_BadHeaderRejected ==
    (/\ HasDispatch
     /\ IsCommand(LastFrame, 3)
     /\ Len(LastFrame) >= 9
     /\ \/ LastFrame[8] > 10
        \/ LastFrame[6] >= num_switches
        \/ LastFrame[7] > 1)
    => LastResp = <<ErrorFrame>> /\ NothingChanged

\* a frame with count 11 that holds all 11 messages was dispatched and rejected
C2_Witness ==
    /\ HasDispatch
    /\ IsCommand(LastFrame, 3)
    /\ LastFrame[8] = 11
    /\ Len(LastFrame) >= 9 + 4 * 11
    /\ LastFrame[6] < num_switches /\ LastFrame[7] <= 1
    /\ LastResp = <<ErrorFrame>>

\* C3: after a SetMessages answered with success the configuration is the
\* one before the command with only the targeted slot replaced by the
\* messages of the frame, in frame order and with the fields given in the
\* frame, the rest of the slot cleared.
C3_SuccessStoresFrameFields ==
    (HasDispatch /\ IsCommand(LastFrame, 3) /\ LastResp = <<SuccessFrame>>)
    => /\ current_config.events =
            [pre.cfg.events EXCEPT ![LastFrame[6] * 2 + LastFrame[7]] = FrameEvent(LastFrame)]
       /\ current_config.num_switches = pre.cfg.num_switches

\* a successful SetMessages of valid messages that fit the frame
GoodSet(d) ==
    /\ HeaderAccepted(d.frame)
    /\ \A i \in 0 .. d.frame[8] - 1 : ValidWire(FrameMessage(d.frame, i))
    /\ d.resp = <<SuccessFrame>>

\* dispatch k reads the pair that dispatch j set, with no SetMessages for
\* that pair in between
SetThenGet(j, k) ==
    /\ j < k
    /\ GoodSet(dispatched[j])
    /\ dispatched[k].frame =
          <<240, 0, 125, 1, 2, dispatched[j].frame[6], dispatched[j].frame[7], 247>>
    /\ \A m \in j + 1 .. k - 1 :
          ~ (/\ IsCommand(dispatched[m].frame, 3)
             /\ Len(dispatched[m].frame) >= 8
             /\ dispatched[m].frame[6] = dispatched[j].frame[6]
             /\ dispatched[m].frame[7] = dispatched[j].frame[7])

\* C4: a successful SetMessages of 0 to 10 valid messages followed by a
\* GetMessages for the same pair yields the count and the (kind, channel,
\* param1, param2) tuples that were set, in order.
C4_SetGetRoundTrip ==
    \A j, k \in 1 .. Len(dispatched) :
        SetThenGet(j, k) =>
            dispatched[k].resp =
                << <<240, 0, 125, 1, 2, dispatched[j].frame[6], dispatched[j].frame[7],
                     dispatched[j].frame[8]>>
                   \o SubSeq(dispatched[j].frame, 9, 8 + 4 * dispatched[j].frame[8])
                   \o <<247>> >>

\* ten messages were set and read back
C4_Witness ==
    /\ Len(dispatched) = 2
    /\ SetThenGet(1, 2)
    /\ dispatched[1].frame[8] = 10
    /\ Len(dispatched[2].resp) = 1

\* the stream ends with the end marker of a frame of more than 64 bytes
EndsOverLong(stream) ==
    LET k == Len(stream) IN
    /\ k > SYSEX_BUFFER_SIZE
    /\ stream[k] = 247
    /\ \E s \in 1 .. k - SYSEX_BUFFER_SIZE :
          /\ stream[s] = 240
          /\ \A m \in s + 1 .. k - 1 : stream[m] # 240 /\ stream[m] # 247

\* C5: the end marker of a frame longer than the capture buffer triggers no
\* dispatch: the parser is Idle afterwards and there is no response and no
\* change of the configuration or the stored image.
C5_OverflowDiscardsFrame ==
    [][(Len(consumed') = Len(consumed) + 1 /\ EndsOverLong(consumed'))
        => /\ dispatched' = dispatched
           /\ current_config' = current_config
           /\ flash' = flash
           /\ sysex_buffer' = <<>>]_vars

EndMarkers(stream) == {k \in 1 .. Len(stream) : stream[k] = 247}

\* the frame the end marker at position k completes: the latest start marker
\* after the previous end marker and the bytes that follow it, as far as the
\* capture buffer holds them
FrameEndingAt(stream, k) ==
    LET ends == {j \in 1 .. k - 1 : stream[j] = 247}
        from == IF ends = {} THEN 1 ELSE Max(ends) + 1
        starts == {s \in from .. k - 1 : stream[s] = 240}
    IN  IF starts = {} THEN <<247>>
        ELSE SubSeq(stream, Max(starts),
                    Min(k - 1, Max(starts) + SYSEX_BUFFER_SIZE - 2)) \o <<247>>

\* the capture in progress after the whole stream
CaptureAfter(stream) ==
    LET marks == {k \in 1 .. Len(stream) : stream[k] = 240 \/ stream[k] = 247}
    IN  IF marks = {} THEN <<>>
        ELSE IF stream[Max(marks)] = 247 THEN <<>>
        ELSE SubSeq(stream, Max(marks),
                    Min(Len(stream), Max(marks) + SYSEX_BUFFER_SIZE - 2))

\* C6: the frames dispatched so far and the capture in progress are determined
\* by the bytes received so far, however they were split into deliveries.
C6_FragmentationIndependent ==
    /\ Len(dispatched) = Cardinality(EndMarkers(consumed))
    /\ \A k \in EndMarkers(consumed) :
          dispatched[Cardinality({j \in EndMarkers(consumed) : j <= k})].frame
            = FrameEndingAt(consumed, k)
    /\ sysex_buffer = CaptureAfter(consumed)

\* a delivery ended in the middle of a frame whose rest is still in flight,
\* after an earlier frame was dispatched
C6_Witness ==
    /\ HasDispatch
    /\ sysex_pos > 1
    /\ usb_rx # <<>>
    /\ usb_rx[Len(usb_rx)] = 247

\* C7: a dispatched frame that is too short, lacks a marker or the identifier
\* triple, or has an unknown command code gets no response and changes nothing.
C7_MalformedIgnored ==
    (HasDispatch /\ ~ (WellFramed(LastFrame) /\ LastFrame[5] \in {1, 2, 3}))
    => LastResp = <<>> /\ NothingChanged

\* a frame with both markers and a wrong device identifier was dispatched
C7_Witness ==
    /\ HasDispatch
    /\ Len(LastFrame) >= 6
    /\ LastFrame[1] = 240 /\ LastFrame[Len(LastFrame)] = 247
    /\ LastFrame[2] = 0 /\ LastFrame[3] = 125 /\ LastFrame[4] # 1
    /\ LastResp = <<>>

\* C8: a GetInfo frame of 6 bytes gets exactly one response with the switch
\* count and the version byte, a GetInfo frame of another length gets none,
\* and the configuration is unchanged either way.
C8_GetInfo ==
    (HasDispatch /\ IsCommand(LastFrame, 1))
    => /\ NothingChanged
       /\ IF Len(LastFrame) = 6
          THEN LastResp = << <<240, 0, 125, 1, 1, num_switches, 1, 247>> >>
          ELSE LastResp = <<>>

\* a GetInfo frame of 6 bytes was answered
C8_Witness ==
    /\ HasDispatch
    /\ IsCommand(LastFrame, 1)
    /\ Len(LastFrame) = 6
    /\ Len(LastResp) = 1

\* C9: a GetMessages frame for a switch below the switch count and an event
\* type of 0 or 1 gets exactly one response: the pair, the slot's count and
\* every message of the slot, 4 fields each in slot order, then the end marker.
C9_GetMessagesFullSlot ==
    (/\ HasDispatch
     /\ IsCommand(LastFrame, 2)
     /\ Len(LastFrame) = 8
     /\ LastFrame[6] < num_switches
     /\ LastFrame[7] <= 1)
    => LET event == Slot(current_config, LastFrame[6], LastFrame[7])
       IN  LastResp =
             << <<240, 0, 125, 1, 2, LastFrame[6], LastFrame[7], event.message_count>>
                \o SlotBytes(event) \o <<247>> >>

\* a slot of 10 messages was read
C9_Witness ==
    /\ HasDispatch
    /\ IsCommand(LastFrame, 2)
    /\ Len(LastFrame) = 8
    /\ LastFrame[6] < num_switches /\ LastFrame[7] <= 1
    /\ Slot(current_config, LastFrame[6], LastFrame[7]).message_count = 10
    /\ Len(LastResp) = 1

\* C10: a GetMessages frame with a switch index at or beyond the switch count
\* or an event type above 1 gets no response, and no GetMessages frame changes
\* the configuration or the stored image.
C10_GetMessagesOutOfRange ==
    (HasDispatch /\ IsCommand(LastFrame, 2))
    => /\ NothingChanged
       /\ (Len(LastFrame) >= 8 /\ (LastFrame[6] >= num_switches \/ LastFrame[7] > 1))
            => LastResp = <<>>

\* GetMessages for switch index 2 was dispatched and not answered
C10_Witness ==
    /\ HasDispatch
    /\ IsCommand(LastFrame, 2)
    /\ Len(LastFrame) = 8
    /\ LastFrame[6] >= num_switches
    /\ LastResp = <<>>

\* C11: every dispatched frame with the identifier triple and the SetMessages
\* command code has exactly one response in the record of its dispatch call,
\* the error frame or the success frame.
C11_SetAnsweredOnce ==
    \A k \in 1 .. Len(dispatched) :
        IsCommand(dispatched[k].frame, 3)
            => dispatched[k].resp \in {<<ErrorFrame>>, <<SuccessFrame>>}

\* a SetMessages frame too short to hold a count byte was answered, and a
\* second frame was dispatched in the same behaviour
C11_Witness ==
    /\ Len(dispatched) = 2
    /\ IsCommand(dispatched[1].frame, 3)
    /\ Len(dispatched[1].frame) < 9
    /\ dispatched[1].resp = <<ErrorFrame>>
    /\ IsCommand(dispatched[2].frame, 3)
    /\ dispatched[2].resp = <<SuccessFrame>>

\* C19: a SetMessages frame with indices and count in range that is too short
\* to hold the announced messages before its end marker is answered with the
\* error response and changes neither the configuration nor the stored image.
C19_ShortFrameRejected ==
    (/\ HasDispatch
     /\ IsCommand(LastFrame, 3)
     /\ Len(LastFrame) >= 9
     /\ LastFrame[6] < num_switches /\ LastFrame[7] <= 1 /\ LastFrame[8] <= 10
     /\ Len(LastFrame) < 9 + 4 * LastFrame[8])
    => LastResp = <<ErrorFrame>> /\ NothingChanged

\* C20: a SetMessages frame that holds all its messages, one of them with a
\* channel byte above 15, is answered with the error response and changes
\* neither the configuration nor the stored image.
C20_BadChannelRejected ==
    (/\ HasDispatch
     /\ HeaderAccepted(LastFrame)
     /\ \E i \in 0 .. LastFrame[8] - 1 : FrameMessage(LastFrame, i).channel > 15)
    => LastResp = <<ErrorFrame>> /\ NothingChanged

\* the stored image passes both checks of load_config_from_flash
ImageValid(image) ==
    image.magic = <<73, 68, 73, 77>> /\ image.checksum = calculate_checksum(image)

\* C12: when a SetMessages is answered with the success frame, the stored
\* image at that moment has a matching magic and checksum and holds the
\* events of the configuration, the new slot included; so a programming
\* that fails its read-back is never followed by the success frame.
C12_SuccessMeansStored ==
    [][(/\ Len(dispatched') > Len(dispatched)
        /\ dispatched'[Len(dispatched')].resp = <<SuccessFrame>>)
        => /\ ImageValid(flash')
           /\ flash'.events = current_config'.events]_vars

\* C13: a power cycle on the image of a save_config_to_flash that met no
\* fault, with no decay since, loads it and leaves in memory the very
\* structure that was persisted, checksum included.
C13_PersistLoadRoundTrip ==
    [][(/\ power'.boots = power.boots + 1
        /\ persisted.fault = "none"
        /\ ~ persisted.decayed)
        => /\ power'.loaded
           /\ current_config' = persisted.cfg]_vars

\* a slot of ten messages was persisted by SetMessages and loaded by the
\* next boot
C13_Witness ==
    /\ power.boots = 1
    /\ power.found = [fault |-> "none", decayed |-> FALSE]
    /\ power.loaded
    /\ \E k \in 1 .. Len(dispatched) : dispatched[k].resp = <<SuccessFrame>>
    /\ Slot(current_config, 0, 0).message_count = 10
    /\ current_config = persisted.cfg

\* the image is the reference but for exactly one byte of its magic or
\* exactly one byte of its checksum
OneByteOff(image, reference) ==
    \/ /\ image = [reference EXCEPT !.magic = image.magic]
       /\ Cardinality({i \in 1 .. 4 : image.magic[i] # reference.magic[i]}) = 1
    \/ /\ image = [reference EXCEPT !.checksum = image.checksum]
       /\ image.checksum.digest = reference.checksum.digest
       /\ Cardinality({i \in 1 .. 4 :
                          image.checksum.flip[i] # reference.checksum.flip[i]}) = 1

\* the built-in mapping: per switch one ControlChange on channel 0 whose
\* number is the switch index, value 127 on press and 0 on release
BuiltInDefaults(cfg) ==
    \A sw \in 0 .. num_switches - 1, ev \in 0 .. 1 :
        Slot(cfg, sw, ev) =
            [message_count |-> 1,
             messages |->
                [i \in 0 .. 9 |->
                    IF i = 0
                    THEN [msg_type |-> 1, channel |-> 0, param1 |-> sw,
                          param2 |-> IF ev = 0 THEN 127 ELSE 0]
                    ELSE ZeroMessage]]

\* C14: a power cycle on an image that differs from what the latest
\* save_config_to_flash stamped in one byte of the magic or one byte of the
\* checksum does not load it; the device runs the built-in mapping and, when
\* the programming at that boot meets no fault, the stored image is that
\* mapping with a matching magic and checksum.
C14_DecayedImageFallsBack ==
    [][(/\ power'.boots = power.boots + 1
        /\ OneByteOff(flash, persisted.cfg))
        => /\ ~ power'.loaded
           /\ BuiltInDefaults(current_config')
           /\ current_config'.num_switches = num_switches
           /\ power'.fault = "none"
                => ImageValid(flash') /\ flash' = current_config']_vars

\* a boot found a decayed image of a configuration set over the protocol and
\* fell back to the built-in mapping, which it stored
C14_Witness ==
    /\ power.boots = 1
    /\ power.found = [fault |-> "none", decayed |-> TRUE]
    /\ ~ power.loaded
    /\ power.fault = "none"
    /\ \E k \in 1 .. Len(dispatched) : dispatched[k].resp = <<SuccessFrame>>
    /\ BuiltInDefaults(current_config)
    /\ ImageValid(flash)
    /\ flash = current_config

\* the send_midi_messages calls for switch i since its latest pin change
CallsSinceRaw(i) ==
    Cardinality({k \in watch[i].mark + 1 .. Len(accepted) : accepted[k].switch = i})

NonNone(event) ==
    SelectSeq([k \in 1 .. event.message_count |-> event.messages[k - 1]],
              LAMBDA m : m.msg_type # 0)

\* the slot an accepted transition selects
SlotOf(r) == Slot(current_config, r.switch, IF r.pressed THEN 0 ELSE 1)

RECURSIVE AllPackets(_)
AllPackets(log) ==
    IF log = <<>> THEN <<>> ELSE Head(log).packets \o AllPackets(Tail(log))

WirePacket(m) ==
    CASE m.msg_type = 1 -> <<11, 176 + m.channel, m.param1, m.param2>>
      [] m.msg_type = 2 -> <<12, 192 + m.channel, m.param1, 0>>
      [] m.msg_type = 3 /\ m.param2 > 0 -> <<9, 144 + m.channel, m.param1, m.param2>>
      [] m.msg_type = 3 /\ m.param2 = 0 -> <<8, 128 + m.channel, m.param1, 0>>

\* C17: every packet written for a message is (0x0B, 0xB0|channel, param1,
\* param2) for ControlChange, (0x0C, 0xC0|channel, param1, 0) for
\* ProgramChange, (0x09, 0x90|channel, param1, param2) for a Note with
\* param2 > 0 and (0x08, 0x80|channel, param1, 0) for a Note with param2 = 0;
\* a None message has no packet.
C17_PacketBytes ==
    \A k \in 1 .. Len(accepted) :
        accepted[k].mounted =>
            LET msgs == NonNone(SlotOf(accepted[k]))
            IN  accepted[k].packets = [j \in 1 .. Len(msgs) |-> WirePacket(msgs[j])]

\* the slot [{ControlChange, channel 0, 64, 127}] emitted status 0xB0, data
\* 64 and 127
C17_Witness ==
    \E k \in 1 .. Len(accepted) :
        /\ accepted[k].mounted
        /\ SlotOf(accepted[k]).message_count = 1
        /\ SlotOf(accepted[k]).messages[0] =
              [msg_type |-> 1, channel |-> 0, param1 |-> 64, param2 |-> 127]
        /\ accepted[k].packets = << <<11, 176, 64, 127>> >>

\* the inverse decoding: kind from the high nibble of the status byte,
\* channel from its low nibble, the parameters from the two data bytes
Decode(p) ==
    [msg_type |-> CASE p[2] \div 16 = 11 -> 1
                    [] p[2] \div 16 = 12 -> 2
                    [] p[2] \div 16 \in {8, 9} -> 3
                    [] OTHER -> 0,
     channel |-> p[2] % 16,
     param1 |-> p[3],
     param2 |-> p[4]]

\* C18 as stated: decoding the packet written for a ControlChange,
\* ProgramChange or Note message yields its kind, channel, param1 and param2.
C18_DecodeYieldsAllFields ==
    \A k \in 1 .. Len(accepted) :
        accepted[k].mounted =>
            LET msgs == NonNone(SlotOf(accepted[k]))
            IN  \A j \in 1 .. Len(msgs) :
                    j <= Len(accepted[k].packets)
                        => Decode(accepted[k].packets[j]) = msgs[j]

\* C18, amended: decoding the packet written for a ControlChange,
\* ProgramChange or Note message yields its kind, channel and param1, and its
\* param2 unless the message is a ProgramChange, which decodes with param2 0.
C18_DecodeButPcParam2 ==
    \A k \in 1 .. Len(accepted) :
        accepted[k].mounted =>
            LET msgs == NonNone(SlotOf(accepted[k]))
            IN  \A j \in 1 .. Len(msgs) :
                    j <= Len(accepted[k].packets)
                        => Decode(accepted[k].packets[j]) =
                             [msgs[j] EXCEPT !.param2 = IF msgs[j].msg_type = 2 THEN 0 ELSE @]

\* packets of a ProgramChange with a param2 above 0, of a Note with velocity
\* 0 and of a ControlChange were written for one press
C18_Witness ==
    \E k \in 1 .. Len(accepted) :
        /\ accepted[k].mounted
        /\ Len(accepted[k].packets) = 9
        /\ \E j \in 1 .. 9 : NonNone(SlotOf(accepted[k]))[j] =
              [msg_type |-> 2, channel |-> 15, param1 |-> 127, param2 |-> 127]
        /\ \E j \in 1 .. 9 : accepted[k].packets[j] = <<8, 143, 127, 0>>
        /\ \E j \in 1 .. 9 : accepted[k].packets[j] = <<11, 176, 64, 127>>

\* no SetMessages frame was dispatched before the latest dispatch: the
\* configuration it met is the one the boot on an invalid image built
NoSetBeforeLast ==
    \A k \in 1 .. Len(dispatched) - 1 : ~ IsCommand(dispatched[k].frame, 3)

\* C21: on the default configuration (boot on uninitialized storage, no
\* SetMessages since) GetMessages(0,0) is answered with count 1 and the
\* single message (kind 1, channel 0, param1 64, param2 127).
C21_DefaultReadsCc64 ==
    (/\ HasDispatch
     /\ LastFrame = <<240, 0, 125, 1, 2, 0, 0, 247>>
     /\ NoSetBeforeLast)
    => LastResp = << <<240, 0, 125, 1, 2, 0, 0, 1, 1, 0, 64, 127, 247>> >>

\* the positions of the stream at which a complete GetInfo frame ends
InfoEnds(stream) ==
    {k \in 6 .. Len(stream) : SubSeq(stream, k - 5, k) = <<240, 0, 125, 1, 1, 247>>}

\* the dispatches of a GetInfo frame that were answered with the info response
InfoAnswers ==
    {k \in 1 .. Len(dispatched) :
        /\ dispatched[k].frame = <<240, 0, 125, 1, 1, 247>>
        /\ dispatched[k].resp = << <<240, 0, 125, 1, 1, num_switches, 1, 247>> >>}

\* a GetInfo frame the host has written is not answered yet
InfoOwed == Cardinality(InfoEnds(consumed \o usb_rx)) > Cardinality(InfoAnswers)

\* switch i shows a level other than its stable state
Pending(i) == (~ gpio[i]) # switch_states[i].state

\* the send_midi_messages calls of this step wrote the packets of the slot
\* of each accepted transition
EmitsSlots ==
    \A k \in Len(accepted) + 1 .. Len(accepted') :
        accepted'[k].mounted =>
            LET msgs == NonNone(SlotOf(accepted'[k]))
            IN  accepted'[k].packets = [j \in 1 .. Len(msgs) |-> WirePacket(msgs[j])]

\* C22: whatever bytes came before (frames in error, frames that overflow,
\* rejected SetMessages, persists that failed), every GetInfo frame read in
\* full has been answered and every GetInfo frame written is answered in the
\* end; every input that shows a level other than its stable state is
\* settled in the end, and each accepted transition emits its slot.
C22_NoErrorIsFatal ==
    /\ [](Cardinality(InfoEnds(consumed)) = Cardinality(InfoAnswers))
    /\ (InfoOwed ~> ~ InfoOwed)
    /\ \A i \in 0 .. num_switches - 1 : (Pending(i) ~> ~ Pending(i))
    /\ [][EmitsSlots]_vars

\* a SetMessages whose persist failed was followed by a GetInfo that was
\* answered, and a press of switch 0 accepted after that emitted its slot
C22_Witness ==
    /\ Len(dispatched) = 2
    /\ dispatched[1].resp = <<SuccessFrame>>
    /\ ~ ImageValid(flash)
    /\ InfoAnswers = {2}
    /\ Len(accepted) = 1
    /\ accepted[1].switch = 0 /\ accepted[1].pressed /\ accepted[1].mounted
    /\ accepted[1].packets = << <<11, 176, 64, 127>> >>

\* promise p exists and is not settled
Unsettled(p) == p <= Len(client.promises) /\ client.promises[p].state = "pending"

Settled(p) == p <= Len(client.promises) /\ client.promises[p].state # "pending"

\* a device response that answers requests of the key: the info response,
\* the messages of the key's switch and event, or a SetMessages result
Matches(key, data) ==
    /\ IsCommand(data, CASE key.kind = "info" -> 1
                         [] key.kind = "message" -> 2
                         [] key.kind = "set" -> 3)
    /\ key.kind = "message" => data[6] = key.sw /\ data[7] = key.ev

\* a promise settles in a step in which a matching response reaches the
\* connected page, or in a step in which its own armed timer fires and
\* rejects it with the timeout
SettlesProperly ==
    \A p \in 1 .. Len(client.promises) :
        (client.promises[p].state = "pending" /\ client'.promises[p].state # "pending")
        => \/ /\ client'.promises[p].state = "timeout"
              /\ client.promises[p].timer /\ ~ client'.promises[p].timer
              /\ client'.handled = client.handled
              /\ \A q \in 1 .. Len(client.promises) :
                    q # p => client'.promises[q] = client.promises[q]
           \/ /\ client'.promises[p].state \in {"resolved", "failed"}
              /\ client.isConnected
              /\ client'.handled = client.handled + 1
              /\ Matches(client.promises[p].key,
                         ResponsesOf(dispatched)[client.handled + 1])

\* the request of promise p is one the device does not answer
Ignored(p) ==
    /\ client.promises[p].key.kind = "message"
    /\ client.promises[p].key.sw >= num_switches \/ client.promises[p].key.ev > 1

\* C23: every promise made by getDeviceInfo, getMessages or setMessages
\* settles in the end; it settles by a matching response or by the timeout
\* of its own timer; and the promise of a request the device ignores is
\* never settled by a response, so it ends in the timeout, disconnect() or
\* not.
C23_RequestsSettle ==
    /\ \A p \in 1 .. MaxRequests : (Unsettled(p) ~> Settled(p))
    /\ [][SettlesProperly]_vars
    /\ [](\A p \in 1 .. Len(client.promises) :
            Ignored(p) => client.promises[p].state \in {"pending", "timeout"})

\* a GetMessages for switch index 2 was read and ignored by the device and
\* its promise ended in the timeout after disconnect() was called on it,
\* while the promise of connectToDevice was settled by the info response
C23_Witness ==
    /\ Len(client.promises) >= 2
    /\ client.promises[1].state = "resolved"
    /\ client.promises[2].key = [kind |-> "message", sw |-> 2, ev |-> 0]
    /\ client.promises[2].state = "timeout"
    /\ client.promises[2].cut
    /\ usb_rx = <<>>
    /\ \E k \in 1 .. Len(dispatched) :
          dispatched[k].frame = <<240, 0, 125, 1, 2, 2, 0, 247>> /\ dispatched[k].resp = <<>>

\* the four slots of the 4-slot configuration in read-out order
LegacySlots(cfg) ==
    <<cfg.switch1_press, cfg.switch1_release, cfg.switch2_press, cfg.switch2_release>>

\* the configuration of the 4-slot firmware before its k-th dispatch
LegacyBefore(k) ==
    IF k = 1 THEN legacy_boot(legacy_erased).cfg ELSE legacy.dispatched[k - 1].cfg

\* the response frame of the n-th slot carrying message m
ConfigResponseFrame(n, m) ==
    <<240, 0, 125, 1, 3, (n - 1) \div 2, (n - 1) % 2,
      m.msg_type, m.channel, m.param1, m.param2, 247>>

IsLegacyRead(frame) == frame = <<240, 0, 125, 1, 2, 247>>

IsLegacyWriteCommand(frame) == Len(frame) > 5 /\ frame[5] = 1

\* a write frame of the documented form with every value in range
IsLegacyValidWrite(frame) ==
    /\ Len(frame) = 12
    /\ SubSeq(frame, 1, 5) = <<240, 0, 125, 1, 1>>
    /\ frame[6] \in {0, 1} /\ frame[7] \in {0, 1}
    /\ frame[8] \in 0 .. 3 /\ frame[9] \in 0 .. 15
    /\ frame[10] \in 0 .. 127 /\ frame[11] \in 0 .. 127
    /\ frame[12] = 247

LegacyDefaultReadOut ==
    << <<240, 0, 125, 1, 3, 0, 0, 1, 0, 64, 127, 247>>,
       <<240, 0, 125, 1, 3, 0, 1, 1, 0, 64, 0, 247>>,
       <<240, 0, 125, 1, 3, 1, 0, 2, 0, 1, 0, 247>>,
       <<240, 0, 125, 1, 3, 1, 1, 2, 0, 0, 0, 247>> >>

\* C24: the 4-slot firmware answers every read request F0 00 7D 01 02 F7
\* with exactly four frames of command 3, in the order switch 1 press,
\* switch 1 release, switch 2 press, switch 2 release, each carrying the
\* slot's current message; before any write these are (1,0,64,127),
\* (1,0,64,0), (2,0,1,0), (2,0,0,0); and a read that follows a valid write
\* shows the written values in the written slot and, in the other three,
\* the values they had before that write.
C24_LegacyReadOut ==
    \A k \in 1 .. Len(legacy.dispatched) :
        IsLegacyRead(legacy.dispatched[k].frame) =>
            LET resp == legacy.dispatched[k].resp IN
            /\ Len(resp) = 4
            /\ \A n \in 1 .. 4 :
                  resp[n] = ConfigResponseFrame(n, LegacySlots(LegacyBefore(k))[n])
            /\ (\A j \in 1 .. k - 1 : ~ IsLegacyWriteCommand(legacy.dispatched[j].frame))
               => resp = LegacyDefaultReadOut
            /\ \A j \in 1 .. k - 1 :
                  LET w == legacy.dispatched[j].frame IN
                  (/\ IsLegacyValidWrite(w)
                   /\ \A i \in j + 1 .. k - 1 :
                         ~ IsLegacyWriteCommand(legacy.dispatched[i].frame))
                  => \A n \in 1 .. 4 :
                        resp[n] =
                            IF n = 2 * w[6] + w[7] + 1
                            THEN <<240, 0, 125, 1, 3, w[6], w[7],
                                   w[8], w[9], w[10], w[11], 247>>
                            ELSE ConfigResponseFrame(n, LegacySlots(LegacyBefore(j))[n])

\* switch 1 press and switch 2 release were written and the read request
\* that followed was answered with four frames showing both writes next to
\* the defaults of the other two slots
C24_Witness ==
    /\ Len(legacy.dispatched) = 3
    /\ legacy.dispatched[1].frame = <<240, 0, 125, 1, 1, 0, 0, 3, 0, 60, 127, 247>>
    /\ legacy.dispatched[2].frame = <<240, 0, 125, 1, 1, 1, 1, 2, 9, 127, 0, 247>>
    /\ IsLegacyRead(legacy.dispatched[3].frame)
    /\ legacy.dispatched[3].resp =
          << <<240, 0, 125, 1, 3, 0, 0, 3, 0, 60, 127, 247>>,
             <<240, 0, 125, 1, 3, 0, 1, 1, 0, 64, 0, 247>>,
             <<240, 0, 125, 1, 3, 1, 0, 2, 0, 1, 0, 247>>,
             <<240, 0, 125, 1, 3, 1, 1, 2, 9, 127, 0, 247>> >>

\* C25: between dispatches the in-memory configuration equals the
\* configuration held in the stored image.
C25_MemoryMatchesImage == current_config = flash

\* the start markers received after the end marker before position k
StartsSinceEnd(stream, k) ==
    LET ends == {j \in 1 .. k - 1 : stream[j] = 247}
        from == IF ends = {} THEN 1 ELSE Max(ends) + 1
    IN  {s \in from .. k - 1 : stream[s] = 240}

\* C26: right after a start marker the capture buffer holds that marker
\* alone, whatever was captured before it, and every frame dispatched from a
\* capture is the latest start marker, every byte received after it and the
\* end marker.
C26_StartMarkerRestarts ==
    /\ (consumed # <<>> /\ consumed[Len(consumed)] = 240) => sysex_buffer = <<240>>
    /\ \A k \in EndMarkers(consumed) :
          StartsSinceEnd(consumed, k) # {}
          => dispatched[Cardinality({j \in EndMarkers(consumed) : j <= k})].frame
                = SubSeq(consumed, Max(StartsSinceEnd(consumed, k)), k)

\* the bytes read in a step of tud_midi_rx_cb
BytesRead(i) == i \in Len(consumed) + 1 .. Len(consumed')

\* C27: a delivery read while the parser is Idle that holds no start marker,
\* end markers included, leaves the parser Idle, sends no response and
\* changes neither the configuration nor the stored image.
C27_IdleBytesIgnored ==
    [][(/\ sysex_pos = 0
        /\ Len(consumed') > Len(consumed)
        /\ \A i \in 1 .. Len(consumed') : BytesRead(i) => consumed'[i] # 240)
       => /\ sysex_buffer' = <<>>
          /\ current_config' = current_config
          /\ flash' = flash
          /\ \A k \in Len(dispatched) + 1 .. Len(dispatched') :
                dispatched'[k].resp = <<>>]_vars

\* a SetMessages was accepted and after it a stray end marker was read by the
\* idle parser, which is idle still, has sent nothing for it and holds the
\* configuration and the image the SetMessages left
C27_Witness ==
    /\ Len(consumed) > 2
    /\ consumed[Len(consumed)] = 247 /\ consumed[Len(consumed) - 1] = 247
    /\ sysex_pos = 0
    /\ Len(dispatched) = 2
    /\ dispatched[1].resp = <<SuccessFrame>>
    /\ dispatched[2].frame = <<247>> /\ dispatched[2].resp = <<>>
    /\ NothingChanged
    /\ current_config # init_default_config

\* C28: at every boot load_config_from_flash succeeds exactly when the
\* magic and the checksum of the stored image both match, and then the
\* configuration is that image; on a mismatch it reports failure and every
\* field is left as init_default_config wrote it before the call, the
\* checksum being stamped by the save_config_to_flash that main() calls next.
C28_FailedLoadKeepsMemory ==
    [][power'.boots = power.boots + 1
       => IF flash.magic = <<73, 68, 73, 77>> /\ flash.checksum = calculate_checksum(flash)
          THEN power'.loaded /\ current_config' = flash
          ELSE /\ ~ power'.loaded
               /\ current_config' =
                    [init_default_config EXCEPT
                        !.checksum = calculate_checksum(init_default_config)]]_vars

\* a SetMessages was answered with success on a part that left the sector
\* unprogrammed; the next boot found the magic wrong, reported the failure
\* and runs the configuration init_default_config wrote
C28_Witness ==
    /\ power.boots = 1
    /\ ~ power.loaded
    /\ power.found.fault = "not_programmed"
    /\ \E k \in 1 .. Len(dispatched) : dispatched[k].resp = <<SuccessFrame>>
    /\ current_config.events = init_default_config.events
    /\ current_config.magic = <<73, 68, 73, 77>>

\* C29: the structure the latest save_config_to_flash handed to the flash
\* carries the magic and the checksum of its own other fields, and when the
\* programming met no fault and nothing decayed since, the stored image is
\* that structure.
C29_PersistStampsChecksum ==
    /\ persisted.cfg.magic = <<73, 68, 73, 77>>
    /\ persisted.cfg.checksum = calculate_checksum(persisted.cfg)
    /\ (persisted.fault = "none" /\ ~ persisted.decayed)
       => flash = persisted.cfg /\ ImageValid(flash)

\* a rejected SetMessages changed slot (1,1) in memory without a save, so
\* the checksum in memory was stale; the SetMessages accepted after it
\* persisted the whole structure, changed slot included
C29_Witness ==
    /\ Len(dispatched) = 2
    /\ dispatched[1].resp = <<ErrorFrame>>
    /\ dispatched[2].resp = <<SuccessFrame>>
    /\ pre.cfg.checksum # calculate_checksum(pre.cfg)
    /\ persisted.fault = "none" /\ ~ persisted.decayed
    /\ flash = persisted.cfg
    /\ Slot(flash, 1, 1) # Slot(init_default_config, 1, 1)
    /\ Slot(flash, 0, 0) = Slot(current_config, 0, 0)

\* the level of input i equals its stable state, or differs less than 20 ms
\* after its latest accepted transition
Suppressed(i) ==
    \/ (~ gpio[i]) = switch_states[i].state
    \/ watch[i].since_accept # Never /\ watch[i].since_accept < 20

\* C30: a sampling pass leaves the stable state and the debounce time of an
\* input unchanged and calls send_midi_messages for none of its slots when
\* its level equals its stable state or differs less than 20 ms after its
\* latest accepted transition; when every input is so, nothing is written.
C30_SuppressedInputUntouched ==
    [][/\ \A i \in 0 .. num_switches - 1 :
            Suppressed(i)
            => /\ switch_states'[i] = switch_states[i]
               /\ \A k \in Len(accepted) + 1 .. Len(accepted') : accepted'[k].switch # i
       /\ (\A i \in 0 .. num_switches - 1 : Suppressed(i))
            => midi_out' = midi_out /\ accepted' = accepted]_vars

\* the pass that accepted the press of switch 1 left switch 0, pressed and
\* accepted some milliseconds before, with its state and its debounce time
C30_Witness ==
    /\ Len(accepted) = 2
    /\ accepted[1].switch = 0 /\ accepted[2].switch = 1
    /\ watch[1].since_accept = 0
    /\ watch[0].since_accept \in 1 .. 19
    /\ switch_states[0].state /\ ~ gpio[0]
    /\ switch_states[0].debounce_time # now
    /\ switch_states[1].debounce_time = now
    /\ accepted[2].mounted
    /\ midi_out = accepted[1].packets \o accepted[2].packets

SlotsInRange(cfg) ==
    \A e \in DOMAIN cfg.events :
        /\ cfg.events[e].message_count <= 10
        /\ \A i \in 0 .. cfg.events[e].message_count - 1 :
              ValidWire(cfg.events[e].messages[i])

\* C32: after boot on the defaults and any sequence of frames, every slot of
\* the configuration has at most 10 messages and every message below its
\* message_count is in range.
C32_SlotsInRange == SlotsInRange(current_config)

\* a SetMessages of three messages was rejected at its second message, of
\* kind 4: the slot counts the first message only and holds the rejected one
\* above its count
C32_Witness ==
    /\ HasDispatch
    /\ LastResp = <<ErrorFrame>>
    /\ Slot(current_config, 0, 0).message_count = 1
    /\ Slot(current_config, 0, 0).messages[0] =
          [msg_type |-> 2, channel |-> 3, param1 |-> 9, param2 |-> 0]
    /\ Slot(current_config, 0, 0).messages[1].msg_type = 4

\* the statements of save_config_to_flash from the erase to the restore
InCriticalSection == persist.pc \in {"erase", "program", "restore"}

\* C33: inside save_config_to_flash interrupts are disabled from before the
\* erase until the program step is done and are as the caller had them from
\* then on, whichever value is returned; no interrupt handler and no
\* main-loop step has run between the disable and the restore, so none has
\* seen the sector erased and not yet programmed.
C33_PersistCriticalSection ==
    /\ InCriticalSection => ~ persist.interrupts
    /\ persist.pc \in {"verify", "idle"} => persist.interrupts
    /\ (persist.sector = "erased" /\ persist.pc = "program") => ~ persist.interrupts
    /\ \A o \in persist.seen : o.pc \notin {"erase", "program", "restore"}

\* two calls have returned, false for a sector left unprogrammed and true;
\* an interrupt was taken right after restore_interrupts, before the
\* read-back, another before the critical section, and main-loop steps ran
\* between the calls
C33_Witness ==
    /\ persist.pc = "idle"
    /\ persist.returned = <<FALSE, TRUE>>
    /\ persist.interrupts
    /\ [by |-> "irq", pc |-> "verify"] \in persist.seen
    /\ [by |-> "irq", pc |-> "disable"] \in persist.seen
    /\ [by |-> "main", pc |-> "idle"] \in persist.seen

\* C34: between two bytes the capture index is between 0 and 63, so the
\* next byte is stored at an index below 64, and every frame handed to
\* process_sysex_data has between 1 and 64 bytes.
C34_CaptureWithinBuffer ==
    /\ sysex_pos \in 0 .. 63
    /\ \A k \in 1 .. Len(dispatched) : Len(dispatched[k].frame) \in 1 .. 64

\* a frame of 65 bytes was read to its end marker: the capture stayed at 63
\* bytes, the end marker went to index 63 and 64 bytes were dispatched
C34_Witness ==
    /\ Len(consumed) = 65
    /\ consumed[1] = 240 /\ consumed[65] = 247
    /\ \A i \in 2 .. 64 : consumed[i] \notin {240, 247}
    /\ Len(dispatched) = 1
    /\ Len(dispatched[1].frame) = 64
    /\ sysex_pos = 0

\* the accepted transitions of switch i, in order
TransitionsOf(i) == SelectSeq(accepted, LAMBDA r : r.switch = i)

\* C35: the accepted transitions of each switch alternate, the first,
\* third, ... being a Press and the second, fourth, ... a Release.
C35_TransitionsAlternate ==
    \A i \in 0 .. num_switches - 1 :
        \A k \in 1 .. Len(TransitionsOf(i)) :
            TransitionsOf(i)[k].pressed = (k % 2 = 1)

\* switch 0 was pressed and released: a Press and then a Release were
\* accepted for it, 20 ms or more apart
C35_Witness ==
    /\ Len(TransitionsOf(0)) = 2
    /\ TransitionsOf(0)[1].pressed
    /\ ~ TransitionsOf(0)[2].pressed
    /\ ~ switch_states[0].state
    /\ gpio[0]

\* the transitions accepted in this step
NewlyAccepted(k) == k \in Len(accepted) + 1 .. Len(accepted')

\* C36: a transition accepted while the transport is not mounted writes no
\* packet, yet the stable state of its switch flips and its debounce time
\* is set to the time of the pass; a step that mounts or unmounts the
\* transport writes nothing and accepts nothing, and what was written so
\* far are the packets of the transitions accepted while mounted, so
\* nothing is replayed.
C36_UnmountedEventLost ==
    /\ [][/\ \A k \in 1 .. Len(accepted') :
                (NewlyAccepted(k) /\ ~ mounted)
                => /\ accepted'[k].packets = <<>>
                   /\ switch_states'[accepted'[k].switch] =
                        [state |-> accepted'[k].pressed, debounce_time |-> now]
                   /\ switch_states[accepted'[k].switch].state = ~ accepted'[k].pressed
          /\ (~ mounted /\ Len(accepted') > Len(accepted)) => midi_out' = midi_out
          /\ mounted' # mounted => midi_out' = midi_out /\ accepted' = accepted]_vars
    /\ [](midi_out = AllPackets(SelectSeq(accepted, LAMBDA r : r.mounted)))

\* the Press of switch 0 was accepted while the transport was not mounted
\* and the Release after it was mounted: the only packets written are those
\* of the Release, so what the host received for the switch starts with a
\* Release
C36_Witness ==
    /\ Len(accepted) = 2
    /\ accepted[1] = [switch |-> 0, pressed |-> TRUE, mounted |-> FALSE, packets |-> <<>>]
    /\ accepted[2].switch = 0 /\ ~ accepted[2].pressed /\ accepted[2].mounted
    /\ accepted[2].packets # <<>>
    /\ midi_out = accepted[2].packets
    /\ mounted

\* promise p waits for a response of the kind of data: it is pending, its
\* timer has not fired, disconnect() has not abandoned it and data matches
\* its key
Awaits(p, data) ==
    /\ client.promises[p].state = "pending"
    /\ client.promises[p].timer
    /\ ~ client.promises[p].cut
    /\ client.promises[p].key.kind \in {"info", "message"}
    /\ Matches(client.promises[p].key, data)

\* C37: when a response reaches the connected page, the earliest request
\* that waits for a response of that kind is resolved by it, whatever other
\* requests with the same key were made and whichever timers fired before.
C37_MatchingResponseResolves ==
    [][(client.isConnected /\ client'.handled = client.handled + 1)
       => LET data == ResponsesOf(dispatched)[client.handled + 1]
          IN  \A p \in 1 .. Len(client.promises) :
                (Awaits(p, data) /\ \A q \in 1 .. p - 1 : ~ Awaits(q, data))
                => client'.promises[p].state = "resolved"]_vars

\* what the device answered to the p-th request of the page (the requests
\* reach the device in the order in which they were made, one frame each)
OwnResponse(p) ==
    IF p <= Len(dispatched) THEN dispatched[p].resp ELSE <<>>

\* C38: a setMessages promise resolves only if the response to its own
\* request carried status 0 and rejects with 'Set operation failed' only if
\* the response to its own request carried status 1.
C38_SetSettledByOwnStatus ==
    \A p \in 1 .. Len(client.promises) :
        client.promises[p].key.kind = "set"
        => /\ client.promises[p].state = "resolved" => OwnResponse(p) = <<SuccessFrame>>
           /\ client.promises[p].state = "failed" => OwnResponse(p) = <<ErrorFrame>>

\* call a of connectToDevice returns false in this step, after its await
ReturnsFalse(a) ==
    /\ a \in 1 .. Len(client.attempts)
    /\ client.attempts[a].returned = "pending"
    /\ client'.attempts[a].returned = "false"

\* a call of connectToDevice returns false in this step because a port was
\* not found
LookupFails == client'.lookup_failures = client.lookup_failures + 1

\* C39: when a call of connectToDevice returns false the manager is not
\* connected: isConnected is false, currentInput and currentOutput are null
\* and the call dispatched no 'connected' event.
C39_FailedConnectLeavesDisconnected ==
    [][/\ \A a \in 1 .. MaxRequests :
             ReturnsFalse(a)
             => /\ ~ client'.isConnected
                /\ client'.currentInput = "null"
                /\ client'.currentOutput = "null"
                /\ ~ client'.attempts[a].connected
       /\ LookupFails
          => /\ ~ client'.isConnected
             /\ client'.currentInput = "null"
             /\ client'.currentOutput = "null"]_vars

\* the messages of an EventSlot in order, in the host's field names
SlotMessages(event) ==
    [i \in 1 .. event.message_count |->
        [msgType |-> event.messages[i - 1].msg_type,
         channel |-> event.messages[i - 1].channel,
         param1 |-> event.messages[i - 1].param1,
         param2 |-> event.messages[i - 1].param2]]

\* the host's handlers do not return early on data: the checks of
\* handleSysExMessage and the length check of the command's handler pass
HostAccepts(data) ==
    /\ Len(data) >= 6
    /\ D(data, Len(data) - 1) = 247
    /\ D(data, 1) = 0 /\ D(data, 2) = 125 /\ D(data, 3) = 1
    /\ D(data, 4) \in {SYSEX_CMD_GET_INFO, SYSEX_CMD_GET_MESSAGE, SYSEX_CMD_SET_MESSAGE}
    /\ D(data, 4) = SYSEX_CMD_GET_INFO => Len(data) >= 8
    /\ D(data, 4) = SYSEX_CMD_GET_MESSAGE => Len(data) >= 9
    /\ D(data, 4) = SYSEX_CMD_SET_MESSAGE => Len(data) >= 7

\* the latest dispatch answered a GetMessages request
AnsweredRead ==
    /\ dispatched # <<>>
    /\ IsCommand(dispatched[Len(dispatched)].frame, SYSEX_CMD_GET_MESSAGE)
    /\ dispatched[Len(dispatched)].resp # <<>>

\* C40: the host's decoding of a GetMessages response gives the switch
\* index, the event type and, in order, the messages of the slot the device
\* holds, none dropped, truncated or misaligned; and every response the
\* device writes passes the host's length checks.
C40_ResponseFormatAgreed ==
    /\ \A k \in 1 .. Len(dispatched) :
          \A r \in 1 .. Len(dispatched[k].resp) : HostAccepts(dispatched[k].resp[r])
    /\ AnsweredRead
       => LET frame == dispatched[Len(dispatched)].frame
              result == message_result(dispatched[Len(dispatched)].resp[1])
          IN  /\ result.switchNum = frame[6]
              /\ result.eventType = frame[7]
              /\ result.messages = SlotMessages(current_config.events[frame[6] * 2 + frame[7]])

\* a slot of ten messages was read out and decoded
C40_Witness ==
    /\ AnsweredRead
    /\ current_config.events[0].message_count = MAX_MESSAGES_PER_EVENT
    /\ dispatched[Len(dispatched)].frame = GetMessagesFrame(0, 0)
    /\ Len(message_result(dispatched[Len(dispatched)].resp[1]).messages) = MAX_MESSAGES_PER_EVENT

====
